---- MODULE Spec2Model ----
(***************************************************************************)
(* A model of realm-core's object-store schema engine                      *)
(* (src/realm/object-store/object_store.cpp) and of its async-open task    *)
(* (src/realm/object-store/sync/async_open_task.cpp).                      *)
(*                                                                         *)
(* Four specifications share the variables of the module:                  *)
(*   SpecAsync   the AsyncOpenTask state machine, one step per lock        *)
(*               section or external call, interleaved with cancel(),      *)
(*               start() and notifier registration on other threads;       *)
(*   SpecVerify  the pure visitors over a change sequence                  *)
(*               (needs_migration and the verifiers);                      *)
(*   SpecRename  ObjectStore::rename_property on a bounded set of groups   *)
(*               and target schemas;                                       *)
(*   SpecApply   ObjectStore::apply_schema_changes, phase by phase.        *)
(* Each specification leaves the variables of the others untouched.        *)
(***************************************************************************)
EXTENDS Integers, Sequences, FiniteSets, TLC

VARIABLES
    \* ---- AsyncOpenTask fields (async_open_task.hpp members)
    m_session,              \* std::shared_ptr<SyncSession>: None, "S1" or "S2"
    m_coordinator,          \* std::shared_ptr<RealmCoordinator>: None or "C1"
    m_registered_callbacks, \* std::vector<uint64_t> of progress tokens
    m_mutex,                \* holder of m_mutex: None, "cancel" or "cont"
    \* ---- the sync sessions and the environment of the task
    sessions,               \* per session: registered notifiers, next token, force-closed
    config,                 \* the realm/sync configuration read by the task
    file_removed,           \* util::File::remove(config.path) has run
    \* ---- threads
    start_pc,               \* position of the thread calling start()
    cancel_t,               \* position, local session and call count of cancel()
    reg,                    \* calls of register_download_progress_notifier and last result
    cont,                   \* the continuation chain: position, pending wait, captured values
    \* ---- the user's AsyncOpenCallback
    callback,               \* number of invocations and the arguments of the last one
    hist,                   \* observations: an effective cancel, a failure raised,
                            \* the subscription state that the attach step read
    \* ---- visitors over a change sequence
    vchanges,               \* the std::vector<SchemaChange> given to the visitor
    vresult,                \* what the visitor returned or threw
    \* ---- the schema engine
    group,                  \* the Group of the write transaction: tables, key counter, exception
    target,                 \* Schema& target_schema
    ap,                     \* the call of apply_schema_changes: arguments, position, outcome
    rn                      \* the call of rename_property: arguments, outcome, state before

avars == <<m_session, m_coordinator, m_registered_callbacks, m_mutex, sessions, config,
           file_removed, start_pc, cancel_t, reg, cont, callback, hist>>
vvars == <<vchanges, vresult>>
svars == <<group, target, ap, rn>>
vars == <<avars, vvars, svars>>
\* what the async-open actions leave alone
notAsync == <<vvars, svars>>

None == "none"

(***************************************************************************)
(* Bounds of the model.                                                    *)
(***************************************************************************)
MaxCancels == 2         \* calls of cancel() in one run
MaxRegistrations == 2   \* calls of register_download_progress_notifier in one run
MaxVersion == 2         \* largest schema version of a file or a target
MaxCallbackOps == 2     \* calls a migration function makes
MaxCalls == 2           \* calls made on one open file
MaxChanges == 3         \* length of a change sequence given to a visitor

(***************************************************************************)
(*                      A s y n c O p e n T a s k                          *)
(***************************************************************************)
SessionIds == {"S1", "S2"}
Statuses == {"OK", "Error"}

\* SyncSession::unregister_progress_notifier for every remembered token, on session s
\* (the loops of cancel() and async_open_complete()).
UnregisterAll(s) ==
    [sessions EXCEPT ![s].notifiers =
        @ \ {m_registered_callbacks[i] : i \in 1..Len(m_registered_callbacks)}]

\* No visitor is called.
VerifyIdle ==
    /\ vchanges = <<>>
    /\ vresult = [op |-> None, value |-> FALSE]

\* No group is open.
StoreIdle ==
    /\ group = None
    /\ target = None
    /\ ap = None
    /\ rn = None

AsyncInit ==
    /\ m_session = "S1"
    /\ m_coordinator = "C1"
    /\ m_registered_callbacks = <<>>
    /\ m_mutex = None
    /\ sessions = [s \in SessionIds |-> [notifiers |-> {}, next_token |-> 1, closed |-> FALSE]]
    /\ config \in [pending_migration : BOOLEAN, subscription_initializer : BOOLEAN,
                   flx_sync_requested : BOOLEAN, db_first_open : BOOLEAN,
                   rerun_on_launch : BOOLEAN]
    /\ file_removed = FALSE
    /\ start_pc = "init"
    /\ cancel_t = [pc |-> "idle", session |-> None, calls |-> 0]
    /\ reg = [calls |-> 0, result |-> None]
    /\ cont = [pc |-> "idle", status |-> "OK", coordinator |-> None, session |-> None]
    /\ callback = [calls |-> 0, realm |-> FALSE, error |-> FALSE]
    /\ hist = [cancelled |-> FALSE, raised |-> None, subscription_state |-> None]
    /\ VerifyIdle
    /\ StoreIdle

\* start(), lines 40-44: the session is read under the lock.
StartCheck ==
    /\ start_pc = "init"
    /\ m_mutex = None
    /\ start_pc' = IF m_session = None THEN "done" ELSE "register"
    /\ UNCHANGED notAsync
    /\ UNCHANGED <<m_session, m_coordinator, m_registered_callbacks, m_mutex, sessions,
                   config, file_removed, cancel_t, reg, cont, callback, hist>>

\* start(), lines 46-65: the download continuation is registered, outside the lock.
StartRegister ==
    /\ start_pc = "register"
    /\ start_pc' = "done"
    /\ cont' = [cont EXCEPT !.pc = "wait_download"]
    /\ UNCHANGED notAsync
    /\ UNCHANGED <<m_session, m_coordinator, m_registered_callbacks, m_mutex, sessions,
                   config, file_removed, cancel_t, reg, callback, hist>>

\* A variant of DownloadCompletion that returns on a failed status without
\* calling async_open_complete.
DownloadCompletionDropsError(status) ==
    /\ cont.pc = "wait_download"
    /\ m_mutex = None
    /\ IF m_session = None \/ status # "OK"
       THEN /\ cont' = [cont EXCEPT !.pc = "swallowed"]
            /\ UNCHANGED m_coordinator
       ELSE /\ cont' = [cont EXCEPT !.pc = "migrate",
                                    !.status = status,
                                    !.coordinator = m_coordinator]
            /\ m_coordinator' = None
    /\ UNCHANGED notAsync
    /\ UNCHANGED <<m_session, m_registered_callbacks, m_mutex, sessions, config,
                   file_removed, start_pc, cancel_t, reg, callback, hist>>

\* The download-completion continuation, lines 47-64.
DownloadCompletion(status) ==
    /\ cont.pc = "wait_download"
    /\ m_mutex = None
    /\ IF m_session = None
       THEN /\ cont' = [cont EXCEPT !.pc = "swallowed"]
            /\ UNCHANGED m_coordinator
       ELSE /\ cont' = [cont EXCEPT !.pc = IF status = "OK" THEN "migrate" ELSE "complete",
                                    !.status = status,
                                    !.coordinator = m_coordinator]
            /\ m_coordinator' = None
    /\ UNCHANGED notAsync
    /\ UNCHANGED <<m_session, m_registered_callbacks, m_mutex, sessions, config,
                   file_removed, start_pc, cancel_t, reg, callback, hist>>

\* migrate_schema_or_complete, lines 179-183: the session is read under the lock.
MigrateCheck ==
    /\ cont.pc = "migrate"
    /\ m_mutex = None
    /\ cont' = IF m_session = None
               THEN [cont EXCEPT !.pc = "swallowed"]
               ELSE [cont EXCEPT !.pc = "has_pending", !.session = m_session]
    /\ UNCHANGED notAsync
    /\ UNCHANGED <<m_session, m_coordinator, m_registered_callbacks, m_mutex, sessions,
                   config, file_removed, start_pc, cancel_t, reg, callback, hist>>

\* A variant of migrate_schema_or_complete without the check of lines 197-203:
\* a pending migration starts the round trip whether or not a subscription
\* initializer is configured.
MigratePendingWithoutInitializerCheck ==
    /\ cont.pc = "has_pending"
    /\ cont' = IF ~config.pending_migration
               THEN [cont EXCEPT !.pc = "bootstrap"]
               ELSE [cont EXCEPT !.pc = "wait_upload"]
    /\ UNCHANGED notAsync
    /\ UNCHANGED <<m_session, m_coordinator, m_registered_callbacks, m_mutex, sessions,
                   config, file_removed, start_pc, cancel_t, reg, callback, hist>>

\* migrate_schema_or_complete, lines 185-210: has_pending_migration on a read
\* transaction, the subscription-initializer check, the upload wait.
MigratePending ==
    /\ cont.pc = "has_pending"
    /\ cont' = IF ~config.pending_migration
               THEN [cont EXCEPT !.pc = "bootstrap"]
               ELSE IF ~config.subscription_initializer
               THEN [cont EXCEPT !.pc = "complete", !.status = "SyncSchemaMigrationError"]
               ELSE [cont EXCEPT !.pc = "wait_upload"]
    /\ UNCHANGED notAsync
    /\ UNCHANGED <<m_session, m_coordinator, m_registered_callbacks, m_mutex, sessions,
                   config, file_removed, start_pc, cancel_t, reg, callback, hist>>

\* A variant of the upload-completion continuation that goes on to pause the
\* session whatever status the upload reported.
UploadCompletionIgnoresStatus(status) ==
    /\ cont.pc = "wait_upload"
    /\ m_mutex = None
    /\ cont' = IF m_session = None
               THEN [cont EXCEPT !.pc = "swallowed"]
               ELSE [cont EXCEPT !.pc = "wait_pause", !.status = status]
    /\ UNCHANGED notAsync
    /\ UNCHANGED <<m_session, m_coordinator, m_registered_callbacks, m_mutex, sessions,
                   config, file_removed, start_pc, cancel_t, reg, callback, hist>>

\* The upload-completion continuation, lines 210-223.
UploadCompletion(status) ==
    /\ cont.pc = "wait_upload"
    /\ m_mutex = None
    /\ cont' = IF m_session = None
               THEN [cont EXCEPT !.pc = "swallowed"]
               ELSE IF status # "OK"
               THEN [cont EXCEPT !.pc = "complete", !.status = status]
               ELSE [cont EXCEPT !.pc = "wait_pause"]
    /\ UNCHANGED notAsync
    /\ UNCHANGED <<m_session, m_coordinator, m_registered_callbacks, m_mutex, sessions,
                   config, file_removed, start_pc, cancel_t, reg, callback, hist>>

\* The continuation of pause_async, lines 225-235.
PauseCompletion(status) ==
    /\ cont.pc = "wait_pause"
    /\ m_mutex = None
    /\ cont' = IF m_session = None
               THEN [cont EXCEPT !.pc = "swallowed"]
               ELSE IF status # "OK"
               THEN [cont EXCEPT !.pc = "complete", !.status = status]
               ELSE [cont EXCEPT !.pc = "reopen", !.status = status]
    /\ UNCHANGED notAsync
    /\ UNCHANGED <<m_session, m_coordinator, m_registered_callbacks, m_mutex, sessions,
                   config, file_removed, start_pc, cancel_t, reg, callback, hist>>

\* Lines 238-241: the try block takes the lock and clears the session.
ReopenLock ==
    /\ cont.pc = "reopen"
    /\ m_mutex = None
    /\ m_mutex' = "cont"
    /\ m_session' = None
    /\ cont' = [cont EXCEPT !.pc = "close"]
    /\ UNCHANGED notAsync
    /\ UNCHANGED <<m_coordinator, m_registered_callbacks, sessions, config, file_removed,
                   start_pc, cancel_t, reg, callback, hist>>

\* The catch block of lines 248-251: the lock guard of the try block is gone,
\* async_open_complete is called with the status of the exception.
ReopenCatch(what) ==
    /\ m_mutex' = None
    /\ cont' = [cont EXCEPT !.pc = "complete", !.status = "Error"]
    /\ hist' = [hist EXCEPT !.raised = what]

\* Lines 242-246, one external call per step, each of which may throw:
\* coordinator->close(), File::remove, get_coordinator, coordinator->sync_session().
ReopenCall(throws) ==
    /\ cont.pc \in {"close", "remove", "get_coordinator", "sync_session"}
    /\ m_mutex = "cont"
    /\ IF throws
       THEN /\ ReopenCatch(cont.pc)
            /\ UNCHANGED <<m_session, file_removed>>
       ELSE /\ UNCHANGED hist
            /\ CASE cont.pc = "close" ->
                      /\ cont' = [cont EXCEPT !.pc = "remove", !.coordinator = None]
                      /\ UNCHANGED <<m_session, m_mutex, file_removed>>
                 [] cont.pc = "remove" ->
                      /\ cont' = [cont EXCEPT !.pc = "get_coordinator"]
                      /\ file_removed' = TRUE
                      /\ UNCHANGED <<m_session, m_mutex>>
                 [] cont.pc = "get_coordinator" ->
                      /\ cont' = [cont EXCEPT !.pc = "sync_session", !.coordinator = "C2"]
                      /\ UNCHANGED <<m_session, m_mutex, file_removed>>
                 [] cont.pc = "sync_session" ->
                      /\ cont' = [cont EXCEPT !.pc = "bootstrap"]
                      /\ m_session' = "S2"
                      /\ m_mutex' = None
                      /\ UNCHANGED file_removed
    /\ UNCHANGED notAsync
    /\ UNCHANGED <<m_coordinator, m_registered_callbacks, sessions, config, start_pc,
                   cancel_t, reg, callback>>

\* wait_for_bootstrap_or_complete, lines 258-271.
WaitForBootstrapOrComplete ==
    /\ cont.pc = "bootstrap"
    /\ cont' = IF /\ config.flx_sync_requested
                  /\ config.subscription_initializer
                  /\ cont.status = "OK"
               THEN [cont EXCEPT !.pc = "attach"]
               ELSE [cont EXCEPT !.pc = "complete"]
    /\ UNCHANGED notAsync
    /\ UNCHANGED <<m_session, m_coordinator, m_registered_callbacks, m_mutex, sessions,
                   config, file_removed, start_pc, cancel_t, reg, callback, hist>>

\* A variant of attach_to_subscription_initializer that looks at the state of
\* the subscription set only, not at the first open nor at rerun_on_launch.
AttachToSubscriptionInitializerNoRerun(throws, sub_complete) ==
    /\ cont.pc = "attach"
    /\ IF throws
       THEN /\ cont' = [cont EXCEPT !.pc = "complete", !.status = "Error"]
            /\ hist' = [hist EXCEPT !.raised = "get_realm"]
       ELSE /\ cont' = IF ~sub_complete
                       THEN [cont EXCEPT !.pc = "wait_substate"]
                       ELSE [cont EXCEPT !.pc = "complete", !.status = "OK"]
            /\ hist' = [hist EXCEPT !.subscription_state =
                                       IF sub_complete THEN "Complete" ELSE "Pending"]
    /\ UNCHANGED notAsync
    /\ UNCHANGED <<m_session, m_coordinator, m_registered_callbacks, m_mutex, sessions,
                   config, file_removed, start_pc, cancel_t, reg, callback>>

\* attach_to_subscription_initializer, lines 113-146. get_realm may throw;
\* sub_complete is the state of the latest subscription set, which hist keeps.
AttachToSubscriptionInitializer(throws, sub_complete) ==
    /\ cont.pc = "attach"
    /\ IF throws
       THEN /\ cont' = [cont EXCEPT !.pc = "complete", !.status = "Error"]
            /\ hist' = [hist EXCEPT !.raised = "get_realm"]
       ELSE /\ cont' = IF ~sub_complete \/ (config.db_first_open /\ config.rerun_on_launch)
                       THEN [cont EXCEPT !.pc = "wait_substate"]
                       ELSE [cont EXCEPT !.pc = "complete", !.status = "OK"]
            /\ hist' = [hist EXCEPT !.subscription_state =
                                       IF sub_complete THEN "Complete" ELSE "Pending"]
    /\ UNCHANGED notAsync
    /\ UNCHANGED <<m_session, m_coordinator, m_registered_callbacks, m_mutex, sessions,
                   config, file_removed, start_pc, cancel_t, reg, callback>>

\* The continuation of get_state_change_notification, lines 138-141.
SubscriptionStateChange(status) ==
    /\ cont.pc = "wait_substate"
    /\ cont' = [cont EXCEPT !.pc = "complete", !.status = status]
    /\ UNCHANGED notAsync
    /\ UNCHANGED <<m_session, m_coordinator, m_registered_callbacks, m_mutex, sessions,
                   config, file_removed, start_pc, cancel_t, reg, callback, hist>>

\* A variant of AsyncOpenCompleteLock that nulls the session without
\* unregistering the remembered tokens.
AsyncOpenCompleteLockKeepsNotifiers ==
    /\ cont.pc = "complete"
    /\ m_mutex = None
    /\ IF m_session = None
       THEN /\ cont' = [cont EXCEPT !.pc = "swallowed"]
            /\ UNCHANGED <<m_session, sessions>>
       ELSE /\ cont' = [cont EXCEPT !.pc = "deliver"]
            /\ UNCHANGED sessions
            /\ m_session' = None
    /\ UNCHANGED notAsync
    /\ UNCHANGED <<m_coordinator, m_registered_callbacks, m_mutex, config, file_removed,
                   start_pc, cancel_t, reg, callback, hist>>

\* async_open_complete, lines 151-161: under the lock, return if the session is
\* gone, else unregister the remembered tokens and clear the session.
AsyncOpenCompleteLock ==
    /\ cont.pc = "complete"
    /\ m_mutex = None
    /\ IF m_session = None
       THEN /\ cont' = [cont EXCEPT !.pc = "swallowed"]
            /\ UNCHANGED <<m_session, sessions>>
       ELSE /\ cont' = [cont EXCEPT !.pc = "deliver"]
            /\ sessions' = UnregisterAll(m_session)
            /\ m_session' = None
    /\ UNCHANGED notAsync
    /\ UNCHANGED <<m_coordinator, m_registered_callbacks, m_mutex, config, file_removed,
                   start_pc, cancel_t, reg, callback, hist>>

\* A variant of AsyncOpenCompleteDeliver whose catch block lacks its return: the
\* callback is invoked with the exception and then again with the realm.
AsyncOpenCompleteDeliverNoReturn(throws) ==
    /\ cont.pc = "deliver"
    /\ cont' = [cont EXCEPT !.pc = "delivered"]
    /\ IF cont.status = "OK" /\ throws
       THEN /\ callback' = [calls |-> callback.calls + 2, realm |-> TRUE, error |-> FALSE]
            /\ hist' = [hist EXCEPT !.raised = "get_unbound_realm"]
       ELSE /\ callback' = [calls |-> callback.calls + 1,
                            realm |-> cont.status = "OK", error |-> cont.status # "OK"]
            /\ UNCHANGED hist
    /\ UNCHANGED notAsync
    /\ UNCHANGED <<m_session, m_coordinator, m_registered_callbacks, m_mutex, sessions,
                   config, file_removed, start_pc, cancel_t, reg>>

\* async_open_complete, lines 163-173: the user callback is invoked with the
\* unbound realm, or with the error (get_unbound_realm may throw).
AsyncOpenCompleteDeliver(throws) ==
    /\ cont.pc = "deliver"
    /\ cont' = [cont EXCEPT !.pc = "delivered"]
    /\ IF cont.status = "OK" /\ ~throws
       THEN /\ callback' = [calls |-> callback.calls + 1, realm |-> TRUE, error |-> FALSE]
            /\ UNCHANGED hist
       ELSE /\ callback' = [calls |-> callback.calls + 1, realm |-> FALSE, error |-> TRUE]
            /\ hist' = IF cont.status = "OK"
                       THEN [hist EXCEPT !.raised = "get_unbound_realm"]
                       ELSE hist
    /\ UNCHANGED notAsync
    /\ UNCHANGED <<m_session, m_coordinator, m_registered_callbacks, m_mutex, sessions,
                   config, file_removed, start_pc, cancel_t, reg>>

\* cancel(), lines 70-82: under the lock, return if the session is gone, else
\* unregister the tokens, move the session out and drop the coordinator.
CancelLock ==
    /\ cancel_t.pc = "idle"
    /\ cancel_t.calls < MaxCancels
    /\ m_mutex = None
    /\ IF m_session = None
       THEN /\ cancel_t' = [cancel_t EXCEPT !.calls = @ + 1]
            /\ UNCHANGED <<m_session, m_coordinator, m_mutex, sessions, hist>>
       ELSE /\ cancel_t' = [cancel_t EXCEPT !.pc = "locked", !.session = m_session]
            /\ sessions' = UnregisterAll(m_session)
            /\ m_session' = None
            /\ m_coordinator' = None
            /\ m_mutex' = "cancel"
            /\ hist' = [hist EXCEPT !.cancelled = TRUE]
    /\ UNCHANGED notAsync
    /\ UNCHANGED <<m_registered_callbacks, config, file_removed, start_pc, reg, cont,
                   callback>>

\* A variant of cancel() that calls force_close() before its lock guard goes out
\* of scope: a download continuation that is still pending is fired inside
\* force_close() on the same thread and blocks on the mutex that thread holds.
CancelUnlockAfterForceClose ==
    /\ cancel_t.pc = "locked"
    /\ m_mutex = "cancel"
    /\ sessions' = [sessions EXCEPT ![cancel_t.session].closed = TRUE]
    /\ IF cont.pc = "wait_download"
       THEN /\ cancel_t' = [cancel_t EXCEPT !.pc = "in_force_close"]
            /\ UNCHANGED m_mutex
       ELSE /\ cancel_t' = [cancel_t EXCEPT !.pc = "unlocked"]
            /\ m_mutex' = None
    /\ UNCHANGED notAsync
    /\ UNCHANGED <<m_session, m_coordinator, m_registered_callbacks, config,
                   file_removed, start_pc, reg, cont, callback, hist>>

\* cancel(), line 82: the lock guard goes out of scope.
CancelUnlock ==
    /\ cancel_t.pc = "locked"
    /\ m_mutex = "cancel"
    /\ m_mutex' = None
    /\ cancel_t' = [cancel_t EXCEPT !.pc = "unlocked"]
    /\ UNCHANGED notAsync
    /\ UNCHANGED <<m_session, m_coordinator, m_registered_callbacks, sessions, config,
                   file_removed, start_pc, reg, cont, callback, hist>>

\* cancel(), lines 87-90: force_close() on the session moved out.
CancelForceClose ==
    /\ cancel_t.pc = "unlocked"
    /\ sessions' = [sessions EXCEPT ![cancel_t.session].closed = TRUE]
    /\ cancel_t' = [pc |-> "idle", session |-> None, calls |-> cancel_t.calls + 1]
    /\ UNCHANGED notAsync
    /\ UNCHANGED <<m_session, m_coordinator, m_registered_callbacks, m_mutex, config,
                   file_removed, start_pc, reg, cont, callback, hist>>

\* A variant of register_download_progress_notifier that does not remember the
\* token it hands out.
RegisterDownloadProgressNotifierForgetsToken ==
    /\ reg.calls < MaxRegistrations
    /\ m_mutex = None
    /\ IF m_session # None
       THEN LET token == sessions[m_session].next_token IN
            /\ sessions' = [sessions EXCEPT ![m_session].notifiers = @ \cup {token},
                                            ![m_session].next_token = token + 1]
            /\ reg' = [calls |-> reg.calls + 1, result |-> token]
            /\ UNCHANGED m_registered_callbacks
       ELSE /\ reg' = [calls |-> reg.calls + 1, result |-> 0]
            /\ UNCHANGED <<sessions, m_registered_callbacks>>
    /\ UNCHANGED notAsync
    /\ UNCHANGED <<m_session, m_coordinator, m_mutex, config, file_removed, start_pc,
                   cancel_t, cont, callback, hist>>

\* register_download_progress_notifier, lines 93-104.
RegisterDownloadProgressNotifier ==
    /\ reg.calls < MaxRegistrations
    /\ m_mutex = None
    /\ IF m_session # None
       THEN LET token == sessions[m_session].next_token IN
            /\ sessions' = [sessions EXCEPT ![m_session].notifiers = @ \cup {token},
                                            ![m_session].next_token = token + 1]
            /\ m_registered_callbacks' = Append(m_registered_callbacks, token)
            /\ reg' = [calls |-> reg.calls + 1, result |-> token]
       ELSE /\ reg' = [calls |-> reg.calls + 1, result |-> 0]
            /\ UNCHANGED <<sessions, m_registered_callbacks>>
    /\ UNCHANGED notAsync
    /\ UNCHANGED <<m_session, m_coordinator, m_mutex, config, file_removed, start_pc,
                   cancel_t, cont, callback, hist>>

\* The steps of the continuation chain.
ContNext ==
    \/ \E status \in Statuses : DownloadCompletion(status)
    \/ MigrateCheck
    \/ MigratePending
    \/ \E status \in Statuses : UploadCompletion(status)
    \/ \E status \in Statuses : PauseCompletion(status)
    \/ ReopenLock
    \/ \E throws \in BOOLEAN : ReopenCall(throws)
    \/ WaitForBootstrapOrComplete
    \/ \E throws \in BOOLEAN, sub_complete \in BOOLEAN :
          AttachToSubscriptionInitializer(throws, sub_complete)
    \/ \E status \in Statuses : SubscriptionStateChange(status)
    \/ AsyncOpenCompleteLock
    \/ \E throws \in BOOLEAN : AsyncOpenCompleteDeliver(throws)

AsyncNext ==
    \/ StartCheck
    \/ StartRegister
    \/ ContNext
    \/ CancelLock
    \/ CancelUnlock
    \/ CancelForceClose
    \/ RegisterDownloadProgressNotifier

SpecAsync == AsyncInit /\ [][AsyncNext]_vars

\* The session fires every completion it was asked for, a thread that entered a
\* function runs it to its end; whether start(), cancel() or a registration is
\* ever called is up to the user.
FairSpecAsync ==
    /\ SpecAsync
    /\ WF_vars(ContNext)
    /\ WF_vars(StartRegister)
    /\ WF_vars(CancelUnlock)
    /\ WF_vars(CancelForceClose)

(***************************************************************************)
(*        V i s i t o r s   o v e r   a   c h a n g e   s e q u e n c e    *)
(***************************************************************************)
\* The variants of SchemaChange (schema_change::*), as the visitors name them.
ChangeKinds ==
    {"AddTable", "RemoveTable", "ChangeTableType", "AddInitialProperties", "AddProperty",
     "RemoveProperty", "ChangePropertyType", "MakePropertyNullable", "MakePropertyRequired",
     "ChangePrimaryKey", "AddIndex", "RemoveIndex"}

\* A variant of NeedsMigrationVisitor that takes AddProperty for an additive change.
NeedsMigrationVisitorAddPropertyFalse(change) ==
    CASE change.kind = "AddIndex" -> FALSE
      [] change.kind = "AddInitialProperties" -> FALSE
      [] change.kind = "AddProperty" -> FALSE
      [] change.kind = "AddTable" -> FALSE
      [] change.kind = "RemoveTable" -> FALSE
      [] change.kind = "ChangeTableType" -> TRUE
      [] change.kind = "ChangePrimaryKey" -> TRUE
      [] change.kind = "ChangePropertyType" -> TRUE
      [] change.kind = "MakePropertyNullable" -> TRUE
      [] change.kind = "MakePropertyRequired" -> TRUE
      [] change.kind = "RemoveIndex" -> FALSE
      [] change.kind = "RemoveProperty" -> TRUE

\* The Visitor of ObjectStore::needs_migration, one overload per variant.
NeedsMigrationVisitor(change) ==
    CASE change.kind = "AddIndex" -> FALSE
      [] change.kind = "AddInitialProperties" -> FALSE
      [] change.kind = "AddProperty" -> TRUE
      [] change.kind = "AddTable" -> FALSE
      [] change.kind = "RemoveTable" -> FALSE
      [] change.kind = "ChangeTableType" -> TRUE
      [] change.kind = "ChangePrimaryKey" -> TRUE
      [] change.kind = "ChangePropertyType" -> TRUE
      [] change.kind = "MakePropertyNullable" -> TRUE
      [] change.kind = "MakePropertyRequired" -> TRUE
      [] change.kind = "RemoveIndex" -> FALSE
      [] change.kind = "RemoveProperty" -> TRUE

\* ObjectStore::needs_migration: std::any_of over the sequence.
needs_migration(changes) ==
    \E i \in 1..Len(changes) : NeedsMigrationVisitor(changes[i])

\* No AsyncOpenTask exists.
AsyncIdle ==
    /\ m_session = None
    /\ m_coordinator = None
    /\ m_registered_callbacks = <<>>
    /\ m_mutex = None
    /\ sessions = [s \in SessionIds |-> [notifiers |-> {}, next_token |-> 1, closed |-> FALSE]]
    /\ config = None
    /\ file_removed = FALSE
    /\ start_pc = None
    /\ cancel_t = None
    /\ reg = None
    /\ cont = None
    /\ callback = None
    /\ hist = None

(***************************************************************************)
(*                 T h e   s t o r a g e   e n g i n e                     *)
(* Group and Table as object_store.cpp uses them.  A group is a record     *)
(* [tables, next_key, err]: the tables by name, the counter table and      *)
(* column keys are drawn from, and the exception in flight (None when      *)
(* there is none; once set, every later operation is skipped), with the    *)
(* number of times ::set_schema_version stored a version (writes).  A      *)
(* table name is the pair <<prefix, rest>>.  A column carries the token of *)
(* the values it holds: 0 for a column created empty.                      *)
(***************************************************************************)
\* uint64_t(-1), as the largest integer the model checker has.
NotVersioned == 2147483647

\* static_cast<int64_t> of a uint64_t and back, in two's complement.
ToInt64(u) == IF u > (NotVersioned - 1) \div 2 THEN (u - NotVersioned) - 1 ELSE u
ToUInt64(i) == IF i < 0 THEN (i + NotVersioned) + 1 ELSE i

c_object_table_prefix == "class_"
c_metadataTableName == <<"", "metadata">>
c_versionColumnName == "version"

table_name_for_object_type(object_type) == <<c_object_table_prefix, object_type>>

object_type_for_table_name(table_name) ==
    IF table_name[1] = c_object_table_prefix THEN table_name[2] ELSE ""

\* Schema keeps its object schemas sorted by name.
SchemaOrder == <<"Cat", "Dog">>

RECURSIVE Fold(_, _, _)
Fold(Op(_, _), acc, seq) ==
    IF Len(seq) = 0 THEN acc ELSE Fold(Op, Op(acc, Head(seq)), Tail(seq))

EmptyGroup == [tables |-> [n \in {} |-> None], next_key |-> 1, err |-> None, writes |-> 0]

HasTable(g, n) == n \in DOMAIN g.tables

Throw(g, e) == [g EXCEPT !.err = e]

ColumnsNamed(tbl, name) == {i \in 1..Len(tbl.cols) : tbl.cols[i].name = name}
ColumnsKeyed(tbl, key) == {i \in 1..Len(tbl.cols) : tbl.cols[i].key = key}

\* Table::get_column_key(name): the null key 0 when there is no such column.
get_column_key(tbl, name) ==
    IF ColumnsNamed(tbl, name) = {} THEN 0
    ELSE tbl.cols[CHOOSE i \in ColumnsNamed(tbl, name) : TRUE].key

valid_column(tbl, key) == key # 0 /\ ColumnsKeyed(tbl, key) # {}

ColumnAt(tbl, key) == tbl.cols[CHOOSE i \in ColumnsKeyed(tbl, key) : TRUE]

\* The guard of every Table operation: an exception in flight skips it, a null
\* TableRef fails the REALM_ASSERT of TableHelper, a key that names no column
\* of the table makes the engine throw.
Guarded(g, n, key_needed, key, result) ==
    IF g.err # None THEN g
    ELSE IF ~HasTable(g, n) THEN Throw(g, "REALM_ASSERT")
    ELSE IF key_needed /\ ~valid_column(g.tables[n], key) THEN Throw(g, "InvalidColumnKey")
    ELSE result

\* Group::add_table / get_or_add_table / add_table_with_primary_key: pk holds the
\* primary-key property, or nothing.
group_add_table(g, n, type, pk) ==
    IF g.err # None \/ HasTable(g, n) THEN g
    ELSE LET cols == [i \in 1..Len(pk) |->
                         [key |-> g.next_key + 1, name |-> pk[i].name, type |-> pk[i].type,
                          nullable |-> pk[i].nullable, object_type |-> "",
                          indexed |-> FALSE, data |-> 0]]
             tbl == [key |-> g.next_key, type |-> type,
                     pk |-> IF Len(pk) = 0 THEN 0 ELSE g.next_key + 1,
                     cols |-> cols, rows |-> <<>>]
         IN [g EXCEPT !.tables = (n :> tbl) @@ @, !.next_key = @ + 1 + Len(pk)]

\* Group::remove_table.
group_remove_table(g, n) ==
    Guarded(g, n, FALSE, 0,
            [g EXCEPT !.tables = [m \in DOMAIN g.tables \ {n} |-> g.tables[m]]])

\* Table::add_column, both overloads: a new, empty column under a fresh key.
table_add_column(g, n, name, type, nullable, object_type, indexed) ==
    Guarded(g, n, FALSE, 0,
            IF get_column_key(g.tables[n], name) # 0 THEN Throw(g, "ColumnNameInUse")
            ELSE [g EXCEPT !.tables[n].cols =
                               Append(@, [key |-> g.next_key, name |-> name, type |-> type,
                                          nullable |-> nullable, object_type |-> object_type,
                                          indexed |-> indexed, data |-> 0]),
                           !.next_key = @ + 1])

\* Table::remove_column: a removed primary-key column leaves the table without one.
table_remove_column(g, n, key) ==
    Guarded(g, n, TRUE, key,
            [g EXCEPT !.tables[n].cols = SelectSeq(@, LAMBDA c : c.key # key),
                      !.tables[n].pk = IF @ = key THEN 0 ELSE @])

\* Table::rename_column.
table_rename_column(g, n, key, name) ==
    Guarded(g, n, TRUE, key,
            [g EXCEPT !.tables[n].cols =
                [i \in 1..Len(@) |-> IF @[i].key = key THEN [@[i] EXCEPT !.name = name]
                                     ELSE @[i]]])

\* Table::set_nullability: the values are kept; the column is rebuilt with the new
\* attribute under a fresh key, which is the key returned.
table_set_nullability(g, n, key, nullable) ==
    Guarded(g, n, TRUE, key,
            IF ColumnAt(g.tables[n], key).nullable = nullable THEN g
            ELSE [g EXCEPT !.tables[n].cols =
                               Append(SelectSeq(@, LAMBDA c : c.key # key),
                                      [ColumnAt(g.tables[n], key) EXCEPT
                                          !.key = g.next_key, !.nullable = nullable]),
                           !.tables[n].pk = IF @ = key THEN g.next_key ELSE @,
                           !.next_key = @ + 1])

\* Table::set_primary_key_column: the null key clears the primary key.
table_set_primary_key_column(g, n, key) ==
    Guarded(g, n, key # 0, key, [g EXCEPT !.tables[n].pk = key])

\* Table::add_search_index / remove_search_index.
table_set_search_index(g, n, key, indexed) ==
    Guarded(g, n, TRUE, key,
            [g EXCEPT !.tables[n].cols =
                [i \in 1..Len(@) |-> IF @[i].key = key THEN [@[i] EXCEPT !.indexed = indexed]
                                     ELSE @[i]]])

\* Table::set_table_type: a table with a primary key cannot become embedded.
table_set_table_type(g, n, type, handle_backlinks) ==
    Guarded(g, n, FALSE, 0,
            IF type = "Embedded" /\ g.tables[n].pk # 0 THEN Throw(g, "IllegalOperation")
            ELSE [g EXCEPT !.tables[n].type = type])

(***************************************************************************)
(*           T h e   h e l p e r s   o f   o b j e c t _ s t o r e         *)
(* A Property is [name, type, nullable, object_type, is_primary,           *)
(* requires_index, column_key]; the Nullable flag of the type is the       *)
(* field nullable, and the null ColKey is 0.  An ObjectSchema is [name,    *)
(* table_type, primary_key, persisted_properties, table_key]; a Schema is  *)
(* a function from object type names to ObjectSchemas, walked in           *)
(* SchemaOrder.                                                            *)
(***************************************************************************)
\* A variant of create_metadata_tables that creates its object on every call.
create_metadata_tablesAlwaysCreatesObject(g) ==
    LET g1 == group_add_table(g, c_metadataTableName, "TopLevel", <<>>)
        g2 == IF Len(g1.tables[c_metadataTableName].cols) = 0
              THEN table_add_column(g1, c_metadataTableName, c_versionColumnName, "Int",
                                    FALSE, "", FALSE)
              ELSE g1
    IN IF g.err # None THEN g
       ELSE [g2 EXCEPT !.tables[c_metadataTableName].rows = Append(@, ToInt64(NotVersioned))]

create_metadata_tables(g) ==
    LET g1 == group_add_table(g, c_metadataTableName, "TopLevel", <<>>)
        g2 == table_add_column(g1, c_metadataTableName, c_versionColumnName, "Int",
                               FALSE, "", FALSE)
    IN IF g.err # None THEN g
       ELSE IF Len(g1.tables[c_metadataTableName].cols) = 0
       THEN [g2 EXCEPT !.tables[c_metadataTableName].rows = Append(@, ToInt64(NotVersioned))]
       ELSE g1

\* ::set_schema_version: get_object(0) throws when the table has no object.
write_schema_version(g, version) ==
    Guarded(g, c_metadataTableName, FALSE, 0,
            IF Len(g.tables[c_metadataTableName].rows) = 0 THEN Throw(g, "KeyNotFound")
            ELSE [g EXCEPT !.tables[c_metadataTableName].rows[1] = ToInt64(version),
                           !.writes = @ + 1])

\* ObjectStore::set_schema_version.
set_schema_version(g, version) == write_schema_version(create_metadata_tables(g), version)

get_schema_version(g) ==
    IF ~HasTable(g, c_metadataTableName) \/ Len(g.tables[c_metadataTableName].cols) = 0
    THEN NotVersioned
    ELSE ToUInt64(g.tables[c_metadataTableName].rows[1])

add_column(g, n, property) ==
    Guarded(g, n, FALSE, 0,
            IF property.is_primary /\ get_column_key(g.tables[n], property.name) # 0 THEN g
            ELSE IF property.type = "Object"
            THEN IF ~HasTable(g, table_name_for_object_type(property.object_type))
                 THEN Throw(g, "REALM_ASSERT")
                 ELSE table_add_column(g, n, property.name, "Object", property.nullable,
                                       property.object_type, FALSE)
            ELSE table_add_column(g, n, property.name, property.type, property.nullable,
                                  "", property.requires_index))

replace_column(g, n, old_property, new_property) ==
    add_column(table_remove_column(g, n, old_property.column_key), n, new_property)

\* ObjectSchema::primary_key_property(): the property or nothing.
primary_key_property(object_schema) ==
    SelectSeq(object_schema.persisted_properties,
              LAMBDA p : p.name = object_schema.primary_key)

\* A variant of create_table that does not look for the table first: a table
\* of that name is dropped and created afresh.
create_tableReplacesExisting(g, object_schema) ==
    LET name == table_name_for_object_type(object_schema.name)
        pk == primary_key_property(object_schema)
        top == IF object_schema.table_type = "TopLevelAsymmetric"
               THEN "TopLevelAsymmetric" ELSE "TopLevel"
        dropped == IF HasTable(g, name) THEN group_remove_table(g, name) ELSE g
    IN IF g.err # None THEN g
       ELSE IF Len(pk) > 0 THEN group_add_table(dropped, name, top, pk)
       ELSE IF object_schema.table_type = "Embedded"
       THEN group_add_table(dropped, name, "Embedded", <<>>)
       ELSE group_add_table(dropped, name, top, <<>>)

create_table(g, object_schema) ==
    LET name == table_name_for_object_type(object_schema.name)
        pk == primary_key_property(object_schema)
        top == IF object_schema.table_type = "TopLevelAsymmetric"
               THEN "TopLevelAsymmetric" ELSE "TopLevel"
    IN IF g.err # None \/ HasTable(g, name) THEN g
       ELSE IF Len(pk) > 0 THEN group_add_table(g, name, top, pk)
       ELSE IF object_schema.table_type = "Embedded"
       THEN group_add_table(g, name, "Embedded", <<>>)
       ELSE group_add_table(g, name, top, <<>>)

AddInitialColumn(g, pair) ==
    IF pair[2].is_primary THEN g ELSE add_column(g, pair[1], pair[2])

add_initial_columns(g, object_schema) ==
    Fold(AddInitialColumn, g,
         [i \in 1..Len(object_schema.persisted_properties) |->
             <<table_name_for_object_type(object_schema.name),
               object_schema.persisted_properties[i]>>])

\* The property is passed by value: the key set_nullability returns is stored in
\* the copy and lost with it.
make_property_optional(g, n, property) ==
    table_set_nullability(g, n, property.column_key, TRUE)

\* A variant of make_property_required that changes the nullability in place,
\* as make_property_optional does.
make_property_requiredInPlace(g, n, property) ==
    table_set_nullability(g, n, property.column_key, FALSE)

make_property_required(g, n, property) ==
    add_column(table_remove_column(g, n, property.column_key), n,
               [property EXCEPT !.nullable = FALSE])

add_search_index(g, n, property) ==
    Guarded(g, n, FALSE, 0,
            table_set_search_index(g, n, get_column_key(g.tables[n], property.name), TRUE))

remove_search_index(g, n, property) ==
    Guarded(g, n, FALSE, 0,
            table_set_search_index(g, n, get_column_key(g.tables[n], property.name), FALSE))

\* ObjectSchema(group, name, key): what the table declares.
PropertyFromColumn(tbl, c) ==
    [name |-> c.name, type |-> c.type, nullable |-> c.nullable,
     object_type |-> c.object_type, is_primary |-> (tbl.pk = c.key),
     requires_index |-> c.indexed, column_key |-> c.key]

ObjectSchemaFromTable(g, object_type) ==
    LET tbl == g.tables[table_name_for_object_type(object_type)]
    IN [name |-> object_type, table_type |-> tbl.type,
        primary_key |-> IF tbl.pk = 0 THEN "" ELSE ColumnAt(tbl, tbl.pk).name,
        persisted_properties |->
            [i \in 1..Len(tbl.cols) |-> PropertyFromColumn(tbl, tbl.cols[i])],
        table_key |-> tbl.key]

schema_from_group(g) ==
    [t \in {object_type_for_table_name(n) : n \in DOMAIN g.tables} \ {""} |->
        ObjectSchemaFromTable(g, t)]

\* StringData::begins_with over the object types of the model, of which only
\* __Internal begins with two underscores.
begins_with(str, prefix) == prefix = "" \/ (prefix = "__" /\ str = "__Internal")

\* ObjectStore::is_empty: rows holds the objects of a table.
is_empty(g) ==
    \A n \in DOMAIN g.tables :
        LET object_type == object_type_for_table_name(n)
        IN \/ object_type = ""
           \/ begins_with(object_type, "__")
           \/ Len(g.tables[n].rows) = 0

SetPropertyKeys(tbl, properties) ==
    [i \in 1..Len(properties) |->
        [properties[i] EXCEPT !.column_key = get_column_key(tbl, properties[i].name)]]

\* set_schema_keys without its inner loop: only the table keys are set.
set_schema_keysOfTablesOnly(g, schema) ==
    [t \in DOMAIN schema |->
        IF ~HasTable(g, table_name_for_object_type(t)) THEN schema[t]
        ELSE [schema[t] EXCEPT
                 !.table_key = g.tables[table_name_for_object_type(t)].key]]

set_schema_keys(g, schema) ==
    [t \in DOMAIN schema |->
        IF ~HasTable(g, table_name_for_object_type(t)) THEN schema[t]
        ELSE [schema[t] EXCEPT
                 !.table_key = g.tables[table_name_for_object_type(t)].key,
                 !.persisted_properties =
                     SetPropertyKeys(g.tables[table_name_for_object_type(t)], @)]]

(***************************************************************************)
(*                     S c h e m a : : c o m p a r e                       *)
(* A SchemaChange is a record [kind, object, ...] holding the object       *)
(* schema and the properties it points to.  An optional property is a      *)
(* sequence of none or one.                                                *)
(***************************************************************************)
property_for_name(object_schema, name) ==
    SelectSeq(object_schema.persisted_properties, LAMBDA p : p.name = name)

NullabilityChange(existing, current_prop, target_prop) ==
    IF current_prop.nullable = target_prop.nullable THEN <<>>
    ELSE IF current_prop.nullable
    THEN <<[kind |-> "MakePropertyRequired", object |-> existing, property |-> current_prop]>>
    ELSE <<[kind |-> "MakePropertyNullable", object |-> existing, property |-> current_prop]>>

IndexChange(existing, current_prop, target_prop) ==
    IF target_prop.requires_index
    THEN IF current_prop.requires_index THEN <<>>
         ELSE <<[kind |-> "AddIndex", object |-> existing, property |-> current_prop]>>
    ELSE IF current_prop.requires_index
    THEN <<[kind |-> "RemoveIndex", object |-> existing, property |-> current_prop]>>
    ELSE <<>>

\* The changes one property of the existing object schema calls for.
ComparePersistedProperty(existing, target_object, current_prop) ==
    LET found == property_for_name(target_object, current_prop.name)
    IN IF Len(found) = 0
       THEN <<[kind |-> "RemoveProperty", object |-> existing, property |-> current_prop]>>
       ELSE IF current_prop.type # found[1].type
               \/ current_prop.object_type # found[1].object_type
       THEN <<[kind |-> "ChangePropertyType", object |-> existing,
               old_property |-> current_prop, new_property |-> found[1]]>>
       ELSE NullabilityChange(existing, current_prop, found[1])
            \o IndexChange(existing, current_prop, found[1])

AddedProperty(existing, target_prop) ==
    IF Len(property_for_name(existing, target_prop.name)) = 0
    THEN <<[kind |-> "AddProperty", object |-> existing, property |-> target_prop]>>
    ELSE <<>>

\* ObjectSchema against ObjectSchema, for a table both schemas have.
CompareObjectSchema(existing, target_object) ==
    (IF existing.table_type # target_object.table_type
     THEN <<[kind |-> "ChangeTableType", object |-> existing,
             old_table_type |-> existing.table_type,
             new_table_type |-> target_object.table_type]>>
     ELSE <<>>)
    \o Fold(LAMBDA acc, p : acc \o ComparePersistedProperty(existing, target_object, p),
            <<>>, existing.persisted_properties)
    \o Fold(LAMBDA acc, p : acc \o AddedProperty(existing, p),
            <<>>, target_object.persisted_properties)
    \o (IF existing.primary_key # target_object.primary_key
        THEN <<[kind |-> "ChangePrimaryKey", object |-> existing,
                property |-> primary_key_property(target_object)]>>
        ELSE <<>>)

CompareType(existing_schema, target_schema, t) ==
    IF t \in DOMAIN target_schema
    THEN IF t \in DOMAIN existing_schema
         THEN CompareObjectSchema(existing_schema[t], target_schema[t])
         ELSE <<[kind |-> "AddTable", object |-> target_schema[t]],
                [kind |-> "AddInitialProperties", object |-> target_schema[t]]>>
    ELSE <<>>

\* existing_schema.compare(target_schema): table removals are not reported.
compare(existing_schema, target_schema) ==
    Fold(LAMBDA acc, t : acc \o CompareType(existing_schema, target_schema, t),
         <<>>, SchemaOrder)

(***************************************************************************)
(*                       T h e   a p p l i c a t o r s                     *)
(***************************************************************************)
TableOf(change) == table_name_for_object_type(change.object.name)

\* SchemaDifferenceExplainer: the errors one change adds.
SchemaDifferenceExplainer(change) ==
    CASE change.kind = "AddTable" ->
             <<<<"Class", change.object.name, "has been added.">>>>
      [] change.kind \in {"RemoveTable", "AddInitialProperties"} -> <<>>
      [] change.kind = "ChangeTableType" ->
             <<<<"Class", change.object.name, "has been changed from",
                 change.old_table_type, "to", change.new_table_type>>>>
      [] change.kind = "AddProperty" ->
             <<<<"Property", change.object.name, change.property.name, "has been added.">>>>
      [] change.kind = "RemoveProperty" ->
             <<<<"Property", change.object.name, change.property.name, "has been removed.">>>>
      [] change.kind = "ChangePropertyType" ->
             <<<<"Property", change.object.name, change.new_property.name,
                 "has been changed from", change.old_property.type,
                 "to", change.new_property.type>>>>
      [] change.kind = "MakePropertyNullable" ->
             <<<<"Property", change.object.name, change.property.name,
                 "has been made optional.">>>>
      [] change.kind = "MakePropertyRequired" ->
             <<<<"Property", change.object.name, change.property.name,
                 "has been made required.">>>>
      [] change.kind = "ChangePrimaryKey" ->
             IF Len(change.property) > 0 /\ change.object.primary_key # ""
             THEN <<<<"Primary Key for class", change.object.name, "has changed from",
                      change.object.primary_key, "to", change.property[1].name>>>>
             ELSE IF Len(change.property) > 0
             THEN <<<<"Primary Key for class", change.object.name, "has been added.">>>>
             ELSE <<<<"Primary Key for class", change.object.name, "has been removed.">>>>
      [] change.kind = "AddIndex" ->
             <<<<"Property", change.object.name, change.property.name,
                 "has been made indexed.">>>>
      [] change.kind = "RemoveIndex" ->
             <<<<"Property", change.object.name, change.property.name,
                 "has been made unindexed.">>>>

(***************************************************************************)
(*                         T h e   v e r i f i e r s                       *)
(* A message is a sequence of lines, a line a tuple of strings and         *)
(* mismatch entries.  A verifier gives [threw, exception]: whether it      *)
(* threw and what it threw.                                                *)
(***************************************************************************)
c_development_mode_msg ==
    <<"If your app is running in development mode, you can delete the realm and restart the app to update your schema.">>

append_errors(message, errors) ==
    message \o [i \in 1..Len(errors) |-> <<"- ", errors[i]>>]

append_line(message, line) == Append(message, line)

SchemaMismatchException(errors) ==
    [type |-> "SchemaMismatchException", code |-> "SchemaMismatch",
     message |-> append_errors(<<<<"Migration is required due to the following errors:">>>>,
                               errors)]

InvalidReadOnlySchemaChangeException(errors) ==
    [type |-> "InvalidReadOnlySchemaChangeException", code |-> "InvalidSchemaChange",
     message |-> append_errors(
                     <<<<"The following changes cannot be made in read-only schema mode:">>>>,
                     errors)]

InvalidAdditiveSchemaChangeException(errors) ==
    [type |-> "InvalidAdditiveSchemaChangeException", code |-> "InvalidSchemaChange",
     message |-> append_line(
                     append_errors(
                         <<<<"The following changes cannot be made in additive-only schema mode:">>>>,
                         errors),
                     c_development_mode_msg)]

InvalidExternalSchemaChangeException(errors) ==
    [type |-> "InvalidExternalSchemaChangeException", code |-> "InvalidSchemaChange",
     message |-> append_line(
                     append_errors(
                         <<<<"Unsupported schema changes were made by another client or process:">>>>,
                         errors),
                     c_development_mode_msg)]

\* ErrorType(verifier.errors).
MakeException(error_type, errors) ==
    CASE error_type = "SchemaMismatchException" -> SchemaMismatchException(errors)
      [] error_type = "InvalidReadOnlySchemaChangeException" ->
             InvalidReadOnlySchemaChangeException(errors)
      [] error_type = "InvalidAdditiveSchemaChangeException" ->
             InvalidAdditiveSchemaChangeException(errors)
      [] error_type = "InvalidExternalSchemaChangeException" ->
             InvalidExternalSchemaChangeException(errors)

\* verify_no_errors with a verifier that stops at the first error it records.
verify_no_errorsStopsAtFirst(error_type, errors) ==
    IF Len(errors) = 0
    THEN [threw |-> FALSE, exception |-> [type |-> "", code |-> "", message |-> <<>>]]
    ELSE [threw |-> TRUE, exception |-> MakeException(error_type, <<errors[1]>>)]

\* verify_no_errors, given the errors the verifier has after visiting every
\* change: the exception is thrown after the loop.
verify_no_errors(error_type, errors) ==
    IF Len(errors) = 0
    THEN [threw |-> FALSE, exception |-> [type |-> "", code |-> "", message |-> <<>>]]
    ELSE [threw |-> TRUE, exception |-> MakeException(error_type, errors)]

\* verify_no_changes_required with a verifier that lets AddTable pass.
verify_no_changes_requiredAllowsAddTable(changes) ==
    verify_no_errors("SchemaMismatchException",
                     Fold(LAMBDA acc, c : acc \o SchemaDifferenceExplainer(c), <<>>,
                          SelectSeq(changes, LAMBDA c : c.kind # "AddTable")))

verify_no_changes_required(changes) ==
    verify_no_errors("SchemaMismatchException",
                     Fold(LAMBDA acc, c : acc \o SchemaDifferenceExplainer(c), <<>>, changes))

\* The Verifier of verify_no_migration_required: four overloads record nothing,
\* the others are SchemaDifferenceExplainer's.
NoMigrationRequiredVerifier(change) ==
    IF change.kind \in {"AddTable", "AddInitialProperties", "AddIndex", "RemoveIndex"}
    THEN <<>>
    ELSE SchemaDifferenceExplainer(change)

\* verify_no_migration_required with the additive verifier's overloads.
verify_no_migration_requiredAllowsProperties(changes) ==
    verify_no_errors("SchemaMismatchException",
                     Fold(LAMBDA acc, c : IF c.kind \in {"AddProperty", "RemoveProperty"}
                                          THEN acc
                                          ELSE acc \o NoMigrationRequiredVerifier(c),
                          <<>>, changes))

verify_no_migration_required(changes) ==
    verify_no_errors("SchemaMismatchException",
                     Fold(LAMBDA acc, c : acc \o NoMigrationRequiredVerifier(c), <<>>, changes))

\* The Verifier of verify_valid_additive_changes: the errors one change adds.
AdditiveVerifier(change) ==
    IF change.kind \in {"AddTable", "AddInitialProperties", "AddProperty", "RemoveProperty",
                        "AddIndex", "RemoveIndex"}
    THEN <<>>
    ELSE SchemaDifferenceExplainer(change)

\* verify_valid_additive_changes that returns true for an index change whatever
\* update_indexes is.
verify_valid_additive_changesIgnoresFlag(changes, update_indexes) ==
    LET outcome == verify_no_errors(
                       "InvalidAdditiveSchemaChangeException",
                       Fold(LAMBDA acc, c : acc \o AdditiveVerifier(c), <<>>, changes))
    IN [threw |-> outcome.threw, exception |-> outcome.exception,
        value |-> /\ ~outcome.threw
                  /\ \E i \in 1..Len(changes) :
                         changes[i].kind \in {"AddTable", "AddInitialProperties",
                                              "AddProperty", "AddIndex", "RemoveIndex"}]

\* verify_valid_additive_changes: other_changes and index_changes are the flags
\* the overloads set; value is what is returned when nothing is thrown.
verify_valid_additive_changes(changes, update_indexes) ==
    LET outcome == verify_no_errors(
                       "InvalidAdditiveSchemaChangeException",
                       Fold(LAMBDA acc, c : acc \o AdditiveVerifier(c), <<>>, changes))
        other_changes == \E i \in 1..Len(changes) :
                             changes[i].kind \in {"AddTable", "AddInitialProperties",
                                                  "AddProperty"}
        index_changes == \E i \in 1..Len(changes) :
                             changes[i].kind \in {"AddIndex", "RemoveIndex"}
    IN [threw |-> outcome.threw, exception |-> outcome.exception,
        value |-> ~outcome.threw /\ (other_changes \/ (index_changes /\ update_indexes))]

\* The Verifier of verify_valid_external_changes.
ExternalVerifier(change) ==
    IF change.kind \in {"AddTable", "AddInitialProperties", "AddProperty", "AddIndex",
                        "RemoveIndex"}
    THEN <<>>
    ELSE IF change.kind = "RemoveTable"
    THEN <<<<"Class", change.object.name, "has been removed.">>>>
    ELSE SchemaDifferenceExplainer(change)

\* verify_valid_external_changes with a verifier that says nothing of RemoveTable.
verify_valid_external_changesAllowsRemoveTable(changes) ==
    verify_no_errors("InvalidExternalSchemaChangeException",
                     Fold(LAMBDA acc, c : acc \o ExternalVerifier(c), <<>>,
                          SelectSeq(changes, LAMBDA c : c.kind # "RemoveTable")))

verify_valid_external_changes(changes) ==
    verify_no_errors("InvalidExternalSchemaChangeException",
                     Fold(LAMBDA acc, c : acc \o ExternalVerifier(c), <<>>, changes))

\* The Verifier of verify_compatible_for_immutable_and_readonly.
ReadOnlyVerifier(change) ==
    IF change.kind \in {"AddTable", "AddInitialProperties", "ChangeTableType",
                        "RemoveProperty", "AddIndex", "RemoveIndex"}
    THEN <<>>
    ELSE SchemaDifferenceExplainer(change)

\* verify_compatible_for_immutable_and_readonly with the overloads of
\* verify_no_migration_required.
verify_compatible_for_immutable_and_readonlyStrict(changes) ==
    verify_no_errors("InvalidReadOnlySchemaChangeException",
                     Fold(LAMBDA acc, c : acc \o NoMigrationRequiredVerifier(c), <<>>, changes))

verify_compatible_for_immutable_and_readonly(changes) ==
    verify_no_errors("InvalidReadOnlySchemaChangeException",
                     Fold(LAMBDA acc, c : acc \o ReadOnlyVerifier(c), <<>>, changes))

\* The Applier of apply_non_migration_changes without its index overloads.
NonMigrationApplierLeavesIndexes(g, change) ==
    CASE change.kind = "AddTable" -> create_table(g, change.object)
      [] change.kind = "AddInitialProperties" -> add_initial_columns(g, change.object)
      [] OTHER -> g

NonMigrationApplier(g, change) ==
    CASE change.kind = "AddTable" -> create_table(g, change.object)
      [] change.kind = "AddInitialProperties" -> add_initial_columns(g, change.object)
      [] change.kind = "AddIndex" ->
             table_set_search_index(g, TableOf(change), change.property.column_key, TRUE)
      [] change.kind = "RemoveIndex" ->
             table_set_search_index(g, TableOf(change), change.property.column_key, FALSE)
      [] OTHER -> g

NonMigrationErrors(change) ==
    IF change.kind \in {"AddTable", "AddInitialProperties", "AddIndex", "RemoveIndex"}
    THEN <<>> ELSE SchemaDifferenceExplainer(change)

\* The applier changes the group while it visits; the exception of verify_no_errors
\* follows the visit.
apply_non_migration_changes(g, changes) ==
    LET visited == Fold(NonMigrationApplier, g, changes)
        outcome == verify_no_errors(
                       "SchemaMismatchException",
                       Fold(LAMBDA acc, c : acc \o NonMigrationErrors(c), <<>>, changes))
    IN IF visited.err = None /\ outcome.threw THEN Throw(visited, outcome.exception.type)
       ELSE visited

set_primary_key(g, n, property) ==
    Guarded(g, n, FALSE, 0,
            IF Len(property) = 0 THEN table_set_primary_key_column(g, n, 0)
            ELSE IF get_column_key(g.tables[n], property[1].name) = 0
            THEN Throw(g, "REALM_ASSERT")
            ELSE table_set_primary_key_column(g, n,
                                              get_column_key(g.tables[n], property[1].name)))

InitialTablesApplier(g, change) ==
    CASE change.kind = "AddTable" -> create_table(g, change.object)
      [] change.kind = "RemoveTable" -> g
      [] change.kind = "AddInitialProperties" -> add_initial_columns(g, change.object)
      [] change.kind = "ChangeTableType" ->
             table_set_table_type(g, TableOf(change), change.new_table_type, FALSE)
      [] change.kind = "AddProperty" -> add_column(g, TableOf(change), change.property)
      [] change.kind = "RemoveProperty" ->
             table_remove_column(g, TableOf(change), change.property.column_key)
      [] change.kind = "MakePropertyNullable" ->
             make_property_optional(g, TableOf(change), change.property)
      [] change.kind = "MakePropertyRequired" ->
             make_property_required(g, TableOf(change), change.property)
      [] change.kind = "ChangePrimaryKey" ->
             set_primary_key(g, TableOf(change), change.property)
      [] change.kind = "AddIndex" -> add_search_index(g, TableOf(change), change.property)
      [] change.kind = "RemoveIndex" ->
             remove_search_index(g, TableOf(change), change.property)
      [] change.kind = "ChangePropertyType" ->
             replace_column(g, TableOf(change), change.old_property, change.new_property)

create_initial_tables(g, changes) == Fold(InitialTablesApplier, g, changes)

AdditiveApplier(g, change, update_indexes) ==
    CASE change.kind = "AddTable" -> create_table(g, change.object)
      [] change.kind = "AddInitialProperties" -> add_initial_columns(g, change.object)
      [] change.kind = "AddProperty" -> add_column(g, TableOf(change), change.property)
      [] change.kind = "AddIndex" ->
             IF update_indexes THEN add_search_index(g, TableOf(change), change.property)
             ELSE g
      [] change.kind = "RemoveIndex" ->
             IF update_indexes
             THEN table_set_search_index(g, TableOf(change), change.property.column_key, FALSE)
             ELSE g
      [] OTHER -> g

apply_additive_changes(g, changes, update_indexes) ==
    Fold(LAMBDA acc, c : AdditiveApplier(acc, c, update_indexes), g, changes)

\* A variant of the pre-migration Applier that does not delay: it removes the
\* column, changes the table type and binds the primary key at once.
PreMigrationApplierDelaysNothing(g, change) == InitialTablesApplier(g, change)

PreMigrationApplier(g, change) ==
    CASE change.kind = "AddTable" -> create_table(g, change.object)
      [] change.kind \in {"RemoveTable", "ChangeTableType", "RemoveProperty"} -> g
      [] change.kind = "AddInitialProperties" -> add_initial_columns(g, change.object)
      [] change.kind = "AddProperty" -> add_column(g, TableOf(change), change.property)
      [] change.kind = "ChangePropertyType" ->
             replace_column(g, TableOf(change), change.old_property, change.new_property)
      [] change.kind = "MakePropertyNullable" ->
             make_property_optional(g, TableOf(change), change.property)
      [] change.kind = "MakePropertyRequired" ->
             make_property_required(g, TableOf(change), change.property)
      [] change.kind = "ChangePrimaryKey" ->
             table_set_primary_key_column(g, TableOf(change), 0)
      [] change.kind = "AddIndex" -> add_search_index(g, TableOf(change), change.property)
      [] change.kind = "RemoveIndex" ->
             remove_search_index(g, TableOf(change), change.property)

apply_pre_migration_changes(g, changes) == Fold(PreMigrationApplier, g, changes)

\* RemoveProperty of the post-migration applier as it would be if it removed the
\* column only with a non-empty initial_schema that holds the property.
PostMigrationRemovePropertyNeedsInitial(g, change, initial_schema) ==
    IF g.err # None THEN g
    ELSE IF DOMAIN initial_schema # {}
            /\ change.object.name \in DOMAIN initial_schema
            /\ Len(property_for_name(initial_schema[change.object.name],
                                     change.property.name)) # 0
    THEN table_remove_column(g, TableOf(change), change.property.column_key)
    ELSE Throw(g, "InvalidProperty: Renamed property does not exist.")

\* RemoveProperty of the post-migration applier.  Dereferencing the end iterator
\* of initial_schema is undefined; the exception recorded for it stands for
\* every outcome, and no run of apply_schema_changes gets there.
PostMigrationRemoveProperty(g, change, initial_schema) ==
    IF g.err # None THEN g
    ELSE IF DOMAIN initial_schema # {} /\ change.object.name \notin DOMAIN initial_schema
    THEN Throw(g, "UndefinedBehaviour")
    ELSE IF DOMAIN initial_schema # {}
            /\ Len(property_for_name(initial_schema[change.object.name],
                                     change.property.name)) = 0
    THEN Throw(g, "InvalidProperty: Renamed property does not exist.")
    ELSE table_remove_column(g, TableOf(change), change.property.column_key)

PostMigrationApplier(g, change, initial_schema, did_reread_schema, handle_backlinks) ==
    CASE change.kind = "RemoveProperty" ->
             PostMigrationRemoveProperty(g, change, initial_schema)
      [] change.kind = "ChangePrimaryKey" ->
             set_primary_key(g, TableOf(change), change.property)
      [] change.kind = "AddTable" -> create_table(g, change.object)
      [] change.kind = "AddInitialProperties" ->
             IF did_reread_schema THEN add_initial_columns(g, change.object) ELSE g
      [] change.kind = "AddIndex" ->
             table_set_search_index(g, TableOf(change), change.property.column_key, TRUE)
      [] change.kind = "RemoveIndex" ->
             table_set_search_index(g, TableOf(change), change.property.column_key, FALSE)
      [] change.kind = "ChangeTableType" ->
             table_set_table_type(g, TableOf(change), change.new_table_type,
                                  handle_backlinks)
      [] OTHER -> g

apply_post_migration_changes(g, changes, initial_schema, did_reread_schema, handle_backlinks) ==
    Fold(LAMBDA acc, c : PostMigrationApplier(acc, c, initial_schema, did_reread_schema,
                                              handle_backlinks),
         g, changes)

delete_data_for_object(g, object_type) ==
    IF g.err # None \/ ~HasTable(g, table_name_for_object_type(object_type)) THEN g
    ELSE group_remove_table(g, table_name_for_object_type(object_type))

(***************************************************************************)
(*                      r e n a m e _ p r o p e r t y                      *)
(***************************************************************************)
\* The checks with the two about old_name exchanged: the table is asked for
\* old_name before the target schema is.
RenamePreconditionsTableAskedFirst(g, target_schema, object_type, old_name, new_name) ==
    LET n == table_name_for_object_type(object_type)
        table_object_schema == ObjectSchemaFromTable(g, object_type)
        old_property == property_for_name(table_object_schema, old_name)
        new_property == property_for_name(table_object_schema, new_name)
    IN IF ~HasTable(g, n) THEN "NoSuchTable: it does not exist."
       ELSE IF object_type \notin DOMAIN target_schema
       THEN "NoSuchTable: it has been removed from the Realm."
       ELSE IF Len(old_property) = 0 THEN "InvalidProperty: it does not exist."
       ELSE IF Len(property_for_name(target_schema[object_type], old_name)) > 0
       THEN "IllegalOperation: the source property still exists."
       ELSE IF Len(new_property) = 0 THEN None
       ELSE IF old_property[1].type # new_property[1].type
               \/ old_property[1].object_type # new_property[1].object_type
       THEN "IllegalOperation: it would change from type to type."
       ELSE IF old_property[1].nullable /\ ~new_property[1].nullable
       THEN "IllegalOperation: it would change from optional to required."
       ELSE None

\* The checks of rename_property, in the order of the code: the LogicError
\* thrown, or None.
RenamePreconditions(g, target_schema, object_type, old_name, new_name) ==
    LET n == table_name_for_object_type(object_type)
        table_object_schema == ObjectSchemaFromTable(g, object_type)
        old_property == property_for_name(table_object_schema, old_name)
        new_property == property_for_name(table_object_schema, new_name)
    IN IF ~HasTable(g, n) THEN "NoSuchTable: it does not exist."
       ELSE IF object_type \notin DOMAIN target_schema
       THEN "NoSuchTable: it has been removed from the Realm."
       ELSE IF Len(property_for_name(target_schema[object_type], old_name)) > 0
       THEN "IllegalOperation: the source property still exists."
       ELSE IF Len(old_property) = 0 THEN "InvalidProperty: it does not exist."
       ELSE IF Len(new_property) = 0 THEN None
       ELSE IF old_property[1].type # new_property[1].type
               \/ old_property[1].object_type # new_property[1].object_type
       THEN "IllegalOperation: it would change from type to type."
       ELSE IF old_property[1].nullable /\ ~new_property[1].nullable
       THEN "IllegalOperation: it would change from optional to required."
       ELSE None

\* target_object_schema->property_for_name(new_name)->column_key = key.
PatchColumnKey(target_schema, object_type, name, key) ==
    [target_schema EXCEPT ![object_type].persisted_properties =
        [i \in 1..Len(@) |-> IF @[i].name = name THEN [@[i] EXCEPT !.column_key = key]
                             ELSE @[i]]]

\* The group and the target schema rename_property leaves.
rename_property(g, target_schema, object_type, old_name, new_name) ==
    LET n == table_name_for_object_type(object_type)
        table_object_schema == ObjectSchemaFromTable(g, object_type)
        old_property == property_for_name(table_object_schema, old_name)[1]
        new_property == property_for_name(table_object_schema, new_name)
        failed == RenamePreconditions(g, target_schema, object_type, old_name, new_name)
        reused == table_rename_column(
                      table_remove_column(g, n, new_property[1].column_key),
                      n, old_property.column_key, new_name)
    IN IF g.err # None THEN [group |-> g, target |-> target_schema]
       ELSE IF failed # None THEN [group |-> Throw(g, failed), target |-> target_schema]
       ELSE IF Len(new_property) = 0
       THEN [group |-> table_rename_column(g, n, old_property.column_key, new_name),
             target |-> target_schema]
       ELSE IF reused.err # None THEN [group |-> reused, target |-> target_schema]
       ELSE [group |-> IF new_property[1].nullable /\ ~old_property.nullable
                       THEN make_property_optional(
                                reused, n,
                                [new_property[1] EXCEPT
                                    !.column_key = old_property.column_key])
                       ELSE reused,
             target |-> PatchColumnKey(target_schema, object_type, new_name,
                                       old_property.column_key)]

(***************************************************************************)
(*             S c h e m a s   a n d   f i l e s   u s e d                 *)
(***************************************************************************)
Prop(name, type, nullable, indexed, primary) ==
    [name |-> name, type |-> type, nullable |-> nullable, object_type |-> "",
     is_primary |-> primary, requires_index |-> indexed, column_key |-> 0]

Object(name, table_type, primary_key, properties) ==
    [name |-> name, table_type |-> table_type, primary_key |-> primary_key,
     persisted_properties |-> properties, table_key |-> 0]

IntA == Prop("a", "Int", FALSE, FALSE, FALSE)
IntB == Prop("b", "Int", FALSE, FALSE, FALSE)

\* The declarations of class Dog: one or two of the properties a and b, required
\* or optional, Int or String, indexed or not, primary key or not.
DogSchemas ==
    {Object("Dog", "TopLevel", "", <<IntA>>),
     Object("Dog", "TopLevel", "", <<IntA, IntB>>),
     Object("Dog", "TopLevel", "", <<IntA, Prop("b", "Int", TRUE, FALSE, FALSE)>>),
     Object("Dog", "TopLevel", "", <<IntA, Prop("b", "String", FALSE, FALSE, FALSE)>>),
     Object("Dog", "TopLevel", "", <<IntA, Prop("b", "Int", FALSE, TRUE, FALSE)>>),
     Object("Dog", "TopLevel", "a", <<Prop("a", "Int", FALSE, FALSE, TRUE), IntB>>),
     Object("Dog", "TopLevel", "", <<Prop("a", "Int", TRUE, FALSE, FALSE), IntB>>),
     Object("Dog", "Embedded", "", <<IntA>>),
     Object("Dog", "TopLevel", "", <<IntB>>),
     Object("Dog", "TopLevel", "", <<Prop("b", "Int", TRUE, FALSE, FALSE)>>)}

CatSchemas == {Object("Cat", "TopLevel", "", <<IntA>>)}

EmptySchema == [t \in {} |-> None]

\* No class, Dog alone, Cat alone, or Cat with a Dog of Int properties.
Schemas ==
    {EmptySchema}
    \cup {("Dog" :> d) : d \in DogSchemas}
    \cup {("Cat" :> c) : c \in CatSchemas}
    \cup {("Cat" :> c) @@ ("Dog" :> d) :
              c \in CatSchemas,
              d \in {Object("Dog", "TopLevel", "", <<IntA>>),
                     Object("Dog", "TopLevel", "", <<IntA, IntB>>)}}

PropertyNames == {"a", "b", "c"}

\* Every column of a class table holds values: the token is the key the column had
\* when the file was written.
FillData(g) ==
    [g EXCEPT !.tables =
        [n \in DOMAIN g.tables |->
            [g.tables[n] EXCEPT !.cols =
                [i \in 1..Len(g.tables[n].cols) |->
                    [g.tables[n].cols[i] EXCEPT !.data = g.tables[n].cols[i].key]]]]]

\* The file a writer of the schema leaves: its tables, and its version unless the
\* file never got one.
FileOf(schema, version) ==
    LET tables == FillData(create_initial_tables(EmptyGroup, compare(EmptySchema, schema)))
    IN IF version = NotVersioned THEN tables
       ELSE [set_schema_version(tables, version) EXCEPT !.writes = 0]

(***************************************************************************)
(*          C a l l s   o f   t h e   v i s i t o r s                      *)
(***************************************************************************)
\* One change of every variant about class Dog and its property a;
\* ChangePrimaryKey in its three forms (key added, changed, removed).
VerifyChanges ==
    LET DogA == Object("Dog", "TopLevel", "", <<IntA>>)
    IN
    {[kind |-> "AddTable", object |-> DogA],
     [kind |-> "RemoveTable", object |-> DogA],
     [kind |-> "ChangeTableType", object |-> DogA,
      old_table_type |-> "TopLevel", new_table_type |-> "Embedded"],
     [kind |-> "AddInitialProperties", object |-> DogA],
     [kind |-> "AddProperty", object |-> DogA, property |-> IntA],
     [kind |-> "RemoveProperty", object |-> DogA, property |-> IntA],
     [kind |-> "ChangePropertyType", object |-> DogA, old_property |-> IntA,
      new_property |-> Prop("a", "String", FALSE, FALSE, FALSE)],
     [kind |-> "MakePropertyNullable", object |-> DogA, property |-> IntA],
     [kind |-> "MakePropertyRequired", object |-> DogA, property |-> IntA],
     [kind |-> "ChangePrimaryKey", object |-> DogA, property |-> <<IntA>>],
     [kind |-> "ChangePrimaryKey", object |-> Object("Dog", "TopLevel", "b", <<IntA, IntB>>),
      property |-> <<IntA>>],
     [kind |-> "ChangePrimaryKey", object |-> Object("Dog", "TopLevel", "a", <<IntA>>),
      property |-> <<>>],
     [kind |-> "AddIndex", object |-> DogA, property |-> IntA],
     [kind |-> "RemoveIndex", object |-> DogA, property |-> IntA]}

\* The change sequences given to the visitors: every sequence of at most
\* MaxChanges changes, of any variant.
VerifyInputs ==
    UNION {[1..n -> VerifyChanges] : n \in 0..MaxChanges}

\* A change sequence, no visitor called yet, and an open file the visitors
\* are not given.
VerifyInit ==
    /\ vchanges \in VerifyInputs
    /\ vresult = [op |-> None, value |-> FALSE]
    /\ AsyncIdle
    /\ group = FileOf([Dog |-> Object("Dog", "TopLevel", "", <<IntA>>)], 1)
    /\ target = None
    /\ ap = None
    /\ rn = None

\* A call of ObjectStore::needs_migration(changes).
NeedsMigration ==
    /\ vresult.op = None
    /\ vresult' = [op |-> "needs_migration", value |-> needs_migration(vchanges)]
    /\ UNCHANGED vchanges
    /\ UNCHANGED <<avars, svars>>

VerifyNoChangesRequired ==
    /\ vresult.op = None
    /\ vresult' = [op |-> "verify_no_changes_required",
                   outcome |-> verify_no_changes_required(vchanges)]
    /\ UNCHANGED vchanges
    /\ UNCHANGED <<avars, svars>>

VerifyNoMigrationRequired ==
    /\ vresult.op = None
    /\ vresult' = [op |-> "verify_no_migration_required",
                   outcome |-> verify_no_migration_required(vchanges)]
    /\ UNCHANGED vchanges
    /\ UNCHANGED <<avars, svars>>

VerifyValidAdditiveChanges ==
    /\ vresult.op = None
    /\ \E update_indexes \in BOOLEAN :
           vresult' = [op |-> "verify_valid_additive_changes",
                       update_indexes |-> update_indexes,
                       outcome |-> verify_valid_additive_changes(vchanges, update_indexes)]
    /\ UNCHANGED vchanges
    /\ UNCHANGED <<avars, svars>>

VerifyValidExternalChanges ==
    /\ vresult.op = None
    /\ vresult' = [op |-> "verify_valid_external_changes",
                   outcome |-> verify_valid_external_changes(vchanges)]
    /\ UNCHANGED vchanges
    /\ UNCHANGED <<avars, svars>>

VerifyCompatibleForImmutableAndReadonly ==
    /\ vresult.op = None
    /\ vresult' = [op |-> "verify_compatible_for_immutable_and_readonly",
                   outcome |-> verify_compatible_for_immutable_and_readonly(vchanges)]
    /\ UNCHANGED vchanges
    /\ UNCHANGED <<avars, svars>>

VerifyNext ==
    \/ NeedsMigration
    \/ VerifyNoChangesRequired
    \/ VerifyNoMigrationRequired
    \/ VerifyValidAdditiveChanges
    \/ VerifyValidExternalChanges
    \/ VerifyCompatibleForImmutableAndReadonly

SpecVerify == VerifyInit /\ [][VerifyNext]_vars

(***************************************************************************)
(*                 C a l l s   o f   r e n a m e _ p r o p e r t y         *)
(***************************************************************************)
\* A file at version 1, a target schema whose keys are set from the file or not
\* yet set, and no call made.
RenameInit ==
    /\ \E disk \in Schemas : group = FileOf(disk, 1)
    /\ \E declared \in Schemas, keys_set \in BOOLEAN :
           target = IF keys_set THEN set_schema_keys(group, declared) ELSE declared
    /\ rn = [pc |-> "start"]
    /\ ap = None
    /\ AsyncIdle
    /\ VerifyIdle

RenameProperty(object_type, old_name, new_name) ==
    /\ rn.pc = "start"
    /\ group' = rename_property(group, target, object_type, old_name, new_name).group
    /\ target' = rename_property(group, target, object_type, old_name, new_name).target
    /\ rn' = [pc |-> "done", object_type |-> object_type, old_name |-> old_name,
              new_name |-> new_name, group |-> group, target |-> target]
    /\ UNCHANGED ap
    /\ UNCHANGED <<avars, vvars>>

RenameNext ==
    \/ \E object_type \in {"Cat", "Dog"}, old_name \in PropertyNames,
          new_name \in PropertyNames :
           RenameProperty(object_type, old_name, new_name)

SpecRename == RenameInit /\ [][RenameNext]_vars

(***************************************************************************)
(*               a p p l y _ s c h e m a _ c h a n g e s                   *)
(* ap.pc is where the call stands: "start" before it, "callback" inside    *)
(* migration_function, "after_callback" behind it, "returned" or "threw"   *)
(* at its end.  The caller passes the version of the file and the changes  *)
(* from the schema of the file to the target schema.                       *)
(***************************************************************************)
SchemaModes ==
    {"Automatic", "Immutable", "ReadOnly", "SoftResetFile", "HardResetFile",
     "AdditiveDiscovered", "AdditiveExplicit", "Manual"}

AdditiveModes == {"AdditiveDiscovered", "AdditiveExplicit"}

Versions == 1..MaxVersion

\* A file written under any schema at any version or at none, a target schema
\* whose keys are unset, and no call made.
ApplyInit ==
    /\ \E disk \in Schemas, version \in Versions \cup {NotVersioned} :
           group = FileOf(disk, version)
    /\ target \in Schemas
    /\ ap = [pc |-> "start"]
    /\ rn = None
    /\ AsyncIdle
    /\ VerifyIdle

\* The arguments of the call, as ap keeps them; flag is
\* set_schema_version_on_version_decrease.
Call(path, mode, target_schema_version, migration_function, flag) ==
    [pc |-> "start", path |-> path, mode |-> mode,
     schema_version |-> get_schema_version(group),
     target_schema_version |-> target_schema_version,
     changes |-> compare(schema_from_group(group), target),
     migration_function |-> migration_function, flag |-> flag,
     old_schema |-> EmptySchema, calls |-> 0]

\* The call has come to its end with this group.
Ended(call, g) == [call EXCEPT !.pc = IF g.err # None THEN "threw" ELSE "returned"]

\* The call goes on with this group unless an exception is in flight.
GoesOn(call, g, pc) == [call EXCEPT !.pc = IF g.err # None THEN "threw" ELSE pc]

\* The additive path writing the version whatever line 892 finds.
ApplyAdditiveAlwaysWrites(mode, target_schema_version, set_schema_version_on_version_decrease) ==
    /\ ap.pc = "start"
    /\ mode \in AdditiveModes
    /\ LET call == Call("additive", mode, target_schema_version, FALSE,
                        set_schema_version_on_version_decrease)
           g == set_schema_version(
                    apply_additive_changes(create_metadata_tables(group),
                                           call.changes, TRUE),
                    target_schema_version)
       IN /\ group' = g
          /\ target' = IF g.err # None THEN target ELSE set_schema_keys(g, target)
          /\ ap' = Ended(call, g)
    /\ UNCHANGED rn
    /\ UNCHANGED <<avars, vvars>>

\* Lines 889-904.
ApplyAdditive(mode, target_schema_version, set_schema_version_on_version_decrease) ==
    /\ ap.pc = "start"
    /\ mode \in AdditiveModes
    /\ LET call == Call("additive", mode, target_schema_version, FALSE,
                        set_schema_version_on_version_decrease)
           set_schema == \/ call.schema_version < target_schema_version
                         \/ call.schema_version = NotVersioned
                         \/ set_schema_version_on_version_decrease
           applied == apply_additive_changes(create_metadata_tables(group),
                                             call.changes, TRUE)
           g == IF set_schema THEN set_schema_version(applied, target_schema_version)
                ELSE applied
       IN /\ group' = g
          /\ target' = IF g.err # None THEN target ELSE set_schema_keys(g, target)
          /\ ap' = Ended(call, g)
    /\ UNCHANGED rn
    /\ UNCHANGED <<avars, vvars>>

\* The unversioned path creating the initial tables in every mode.
ApplyUnversionedCreatesInReadOnly(mode, target_schema_version) ==
    /\ ap.pc = "start"
    /\ mode \notin AdditiveModes
    /\ get_schema_version(group) = NotVersioned
    /\ LET call == Call("unversioned", mode, target_schema_version, FALSE, FALSE)
           g == set_schema_version(
                    create_initial_tables(create_metadata_tables(group), call.changes),
                    target_schema_version)
       IN /\ group' = g
          /\ target' = IF g.err # None THEN target ELSE set_schema_keys(g, target)
          /\ ap' = Ended(call, g)
    /\ UNCHANGED rn
    /\ UNCHANGED <<avars, vvars>>

\* Lines 889 and 906-913.
ApplyUnversioned(mode, target_schema_version) ==
    /\ ap.pc = "start"
    /\ mode \notin AdditiveModes
    /\ get_schema_version(group) = NotVersioned
    /\ LET call == Call("unversioned", mode, target_schema_version, FALSE, FALSE)
           created == IF mode # "ReadOnly"
                      THEN create_initial_tables(create_metadata_tables(group),
                                                 call.changes)
                      ELSE create_metadata_tables(group)
           g == set_schema_version(created, target_schema_version)
       IN /\ group' = g
          /\ target' = IF g.err # None THEN target ELSE set_schema_keys(g, target)
          /\ ap' = Ended(call, g)
    /\ UNCHANGED rn
    /\ UNCHANGED <<avars, vvars>>

\* The same-version path with a write of the version before its return.
ApplySameVersionWritesVersion(mode) ==
    /\ ap.pc = "start"
    /\ mode \notin AdditiveModes \cup {"Manual"}
    /\ get_schema_version(group) # NotVersioned
    /\ LET call == Call("same_version", mode, get_schema_version(group), FALSE, FALSE)
           g == set_schema_version(
                    apply_non_migration_changes(create_metadata_tables(group),
                                                call.changes),
                    call.target_schema_version)
       IN /\ group' = g
          /\ target' = IF g.err # None THEN target ELSE set_schema_keys(g, target)
          /\ ap' = Ended(call, g)
    /\ UNCHANGED rn
    /\ UNCHANGED <<avars, vvars>>

\* Lines 889 and 935-939.
ApplySameVersion(mode) ==
    /\ ap.pc = "start"
    /\ mode \notin AdditiveModes \cup {"Manual"}
    /\ get_schema_version(group) # NotVersioned
    /\ LET call == Call("same_version", mode, get_schema_version(group), FALSE, FALSE)
           g == apply_non_migration_changes(create_metadata_tables(group), call.changes)
       IN /\ group' = g
          /\ target' = IF g.err # None THEN target ELSE set_schema_keys(g, target)
          /\ ap' = Ended(call, g)
    /\ UNCHANGED rn
    /\ UNCHANGED <<avars, vvars>>

\* Lines 889 and 923-926: Manual mode up to the migration function.
ApplyManual(target_schema_version, migration_function) ==
    /\ ap.pc = "start"
    /\ get_schema_version(group) # NotVersioned
    /\ LET call == Call("manual", "Manual", target_schema_version, migration_function,
                        FALSE)
           g == create_metadata_tables(group)
       IN /\ group' = g
          /\ ap' = GoesOn(call, g, IF migration_function THEN "callback"
                                   ELSE "after_callback")
    /\ UNCHANGED <<target, rn>>
    /\ UNCHANGED <<avars, vvars>>

\* A variant of lines 928-932 without the call of verify_no_changes_required.
ApplyManualFinishSkipsVerification ==
    /\ ap.pc = "after_callback"
    /\ ap.path = "manual"
    /\ LET g == set_schema_version(group, ap.target_schema_version)
       IN /\ group' = g
          /\ target' = IF group.err # None THEN target ELSE set_schema_keys(group, target)
          /\ ap' = Ended(ap, g)
    /\ UNCHANGED rn
    /\ UNCHANGED <<avars, vvars>>

\* Lines 928-932; validate_primary_columns finds nothing to object to in the
\* tables of the model.
ApplyManualFinish ==
    /\ ap.pc = "after_callback"
    /\ ap.path = "manual"
    /\ LET outcome == verify_no_changes_required(compare(schema_from_group(group), target))
           verified == IF group.err = None /\ outcome.threw
                       THEN Throw(group, outcome.exception.type) ELSE group
           g == set_schema_version(verified, ap.target_schema_version)
       IN /\ group' = g
          /\ target' = IF verified.err # None THEN target
                       ELSE set_schema_keys(verified, target)
          /\ ap' = Ended(ap, g)
    /\ UNCHANGED rn
    /\ UNCHANGED <<avars, vvars>>

\* Lines 889 and 941-947: the migration up to the migration function.
ApplyMigration(mode, target_schema_version, migration_function) ==
    /\ ap.pc = "start"
    /\ mode \notin AdditiveModes \cup {"Manual"}
    /\ get_schema_version(group) \notin {NotVersioned, target_schema_version}
    /\ LET call == Call("migration", mode, target_schema_version, migration_function,
                        FALSE)
           g == apply_pre_migration_changes(create_metadata_tables(group), call.changes)
       IN /\ group' = g
          /\ target' = IF migration_function /\ g.err = None
                       THEN set_schema_keys(g, target) ELSE target
          /\ ap' = GoesOn([call EXCEPT
                              !.old_schema =
                                  schema_from_group(create_metadata_tables(group))],
                          g, IF migration_function THEN "callback"
                             ELSE "after_callback")
    /\ UNCHANGED rn
    /\ UNCHANGED <<avars, vvars>>

\* A variant of lines 950-953 that hands the caller's change list to the
\* post-migration step although the migration function has run.
ApplyMigrationFinishReusesChanges(handle_automatically_backlinks) ==
    /\ ap.pc = "after_callback"
    /\ ap.path = "migration"
    /\ LET applied ==
               apply_post_migration_changes(group, ap.changes,
                                            IF ap.migration_function THEN ap.old_schema
                                            ELSE EmptySchema,
                                            ap.migration_function,
                                            handle_automatically_backlinks)
           g == set_schema_version(applied, ap.target_schema_version)
       IN /\ group' = g
          /\ target' = IF g.err # None THEN target ELSE set_schema_keys(g, target)
          /\ ap' = Ended(ap, g)
    /\ UNCHANGED rn
    /\ UNCHANGED <<avars, vvars>>

\* Lines 943-944, 950-953 or 956, then 959-960: the argument
\* handle_automatically_backlinks is read here first.
ApplyMigrationFinish(handle_automatically_backlinks) ==
    /\ ap.pc = "after_callback"
    /\ ap.path = "migration"
    /\ LET applied ==
               IF ap.migration_function
               THEN apply_post_migration_changes(
                        group, compare(schema_from_group(group), target),
                        ap.old_schema, TRUE, handle_automatically_backlinks)
               ELSE apply_post_migration_changes(group, ap.changes, EmptySchema,
                                                 FALSE, handle_automatically_backlinks)
           g == set_schema_version(applied, ap.target_schema_version)
       IN /\ group' = g
          /\ target' = IF g.err # None THEN target ELSE set_schema_keys(g, target)
          /\ ap' = Ended(ap, g)
    /\ UNCHANGED rn
    /\ UNCHANGED <<avars, vvars>>

\* migration_function calls rename_property; what it throws leaves the function
\* and apply_schema_changes.
MigrationFunctionRename(object_type, old_name, new_name) ==
    /\ ap.pc = "callback"
    /\ ap.calls < MaxCallbackOps
    /\ group' = rename_property(group, target, object_type, old_name, new_name).group
    /\ target' = rename_property(group, target, object_type, old_name, new_name).target
    /\ ap' = GoesOn([ap EXCEPT !.calls = @ + 1], group', "callback")
    /\ UNCHANGED rn
    /\ UNCHANGED <<avars, vvars>>

\* migration_function calls delete_data_for_object.
MigrationFunctionDelete(object_type) ==
    /\ ap.pc = "callback"
    /\ ap.calls < MaxCallbackOps
    /\ group' = delete_data_for_object(group, object_type)
    /\ ap' = [ap EXCEPT !.calls = @ + 1]
    /\ UNCHANGED <<target, rn>>
    /\ UNCHANGED <<avars, vvars>>

\* migration_function returns.
MigrationFunctionReturn ==
    /\ ap.pc = "callback"
    /\ ap' = [ap EXCEPT !.pc = "after_callback"]
    /\ UNCHANGED <<group, target, rn>>
    /\ UNCHANGED <<avars, vvars>>

ApplyNext ==
    \/ \E mode \in SchemaModes, target_schema_version \in Versions, flag \in BOOLEAN :
           ApplyAdditive(mode, target_schema_version, flag)
    \/ \E mode \in SchemaModes, target_schema_version \in Versions :
           ApplyUnversioned(mode, target_schema_version)
    \/ \E mode \in SchemaModes : ApplySameVersion(mode)
    \/ \E target_schema_version \in Versions, migration_function \in BOOLEAN :
           ApplyManual(target_schema_version, migration_function)
    \/ ApplyManualFinish
    \/ \E mode \in SchemaModes, target_schema_version \in Versions,
          migration_function \in BOOLEAN :
           ApplyMigration(mode, target_schema_version, migration_function)
    \/ \E flag \in BOOLEAN : ApplyMigrationFinish(flag)
    \/ \E old_name \in PropertyNames : \E new_name \in PropertyNames \ {old_name} :
           MigrationFunctionRename("Dog", old_name, new_name)
    \/ \E object_type \in {"Cat", "Dog"} : MigrationFunctionDelete(object_type)
    \/ MigrationFunctionReturn

SpecApply == ApplyInit /\ [][ApplyNext]_vars

(***************************************************************************)
(*            C l a i m s   a b o u t   A s y n c O p e n T a s k          *)
(***************************************************************************)
\* The chain of continuations has come to its end: the callback was delivered,
\* an event was swallowed, or start() found no session and registered nothing.
ChainEnded ==
    \/ cont.pc \in {"swallowed", "delivered"}
    \/ (start_pc = "done" /\ cont.pc = "idle")

\* C1: under every interleaving of cancel() with the download, upload, pause and
\* subscription-state continuations, the user callback is invoked at most once.
C1_CallbackAtMostOnce == callback.calls <= 1

\* C1 witness: cancel() took effect during a run that went through the pause
\* continuation, and the callback has been invoked.
C1_Witness ==
    /\ callback.calls = 1
    /\ hist.cancelled
    /\ file_removed

\* C2 (as claimed): once cancel() has run on a task whose session was set, no
\* step invokes the user callback any more.
C2_NoCallbackAfterCancel == [][hist.cancelled => callback.calls' = callback.calls]_vars

C4_RaisedFailureIsDelivered ==
    (ChainEnded /\ hist.raised # None /\ ~hist.cancelled) => callback.calls = 1

\* C20: async_open_complete, finding the session set, unregisters every
\* remembered token from that session and nulls the session, and only then is
\* the user callback invoked: by async_open_complete, with the session null,
\* with the realm and no error when the status is OK and get_unbound_realm
\* did not throw, with an error and no realm otherwise, never with both nor
\* with neither.  A chain whose download ended OK without pending migration
\* and without a flexible-sync initializer, the realm acquired, delivers the
\* realm.
C20_UnregisterNullThenDeliver ==
    /\ [][(cont.pc = "complete" /\ cont'.pc = "deliver")
            => /\ m_session # None
               /\ m_session' = None
               /\ \A i \in 1..Len(m_registered_callbacks) :
                      m_registered_callbacks[i] \notin sessions'[m_session].notifiers]_vars
    /\ [][callback'.calls # callback.calls
            => /\ cont.pc = "deliver"
               /\ m_session = None
               /\ m_session' = None
               /\ callback'.realm # callback'.error
               /\ callback'.realm <=> (cont.status = "OK" /\ hist'.raised = hist.raised)]_vars
    /\ []((cont.pc = "delivered" /\ cont.status = "OK" /\ hist.raised = None
             /\ ~config.pending_migration /\ ~config.subscription_initializer)
            => (callback.calls = 1 /\ callback.realm /\ ~callback.error))

\* C20 witness: the callback has received the realm on the happy path, two
\* tokens were remembered, no session holds a notifier and the session is null.
C20_Witness ==
    /\ cont.pc = "delivered"
    /\ callback.calls = 1
    /\ callback.realm
    /\ ~callback.error
    /\ ~config.pending_migration
    /\ ~config.subscription_initializer
    /\ Len(m_registered_callbacks) = 2
    /\ \A s \in SessionIds : sessions[s].notifiers = {}
    /\ m_session = None

\* C21 as stated: when a cancel() that found the session set returns, every
\* remembered progress token has been unregistered (no session holds a notifier
\* of the task), the task holds neither a coordinator nor a session, and the
\* session it held has been force-closed; in whichever state of the chain the
\* cancel() came.
C21_CancelLeavesNothingHeld ==
    [][(cancel_t.pc = "unlocked" /\ cancel_t'.pc = "idle")
        => /\ m_session' = None
           /\ m_coordinator' = None
           /\ sessions'[cancel_t.session].closed
           /\ \A s \in SessionIds : sessions'[s].notifiers = {}]_vars

\* C22 as stated: on every exit path of the async open (the callback was
\* delivered, the chain was swallowed because the session was gone, or a
\* cancel() returned) every progress token that was registered has been
\* unregistered from the session it was registered on: no session still holds
\* a notifier of the task.
C22_NoNotifierLeftAtExit ==
    (cont.pc \in {"delivered", "swallowed"})
        => \A s \in SessionIds : sessions[s].notifiers = {}

\* C23: a call of register_download_progress_notifier that finds the session
\* gone returns 0 and changes neither a session's notifiers nor the remembered
\* tokens; a call that finds the session set registers a new notifier on that
\* session and on no other, appends its token to the remembered tokens and
\* returns that token.
C23_RegisterOnlyWhileSessionSet ==
    [][(reg'.calls = reg.calls + 1)
        => IF m_session = None
           THEN /\ reg'.result = 0
                /\ sessions' = sessions
                /\ m_registered_callbacks' = m_registered_callbacks
           ELSE /\ reg'.result # 0
                /\ reg'.result \notin sessions[m_session].notifiers
                /\ sessions'[m_session].notifiers =
                       sessions[m_session].notifiers \cup {reg'.result}
                /\ \A s \in SessionIds \ {m_session} : sessions'[s] = sessions[s]
                /\ m_registered_callbacks' = Append(m_registered_callbacks, reg'.result)]_vars

\* A first call registered a notifier and a second call, after the session was
\* gone, returned 0.
C23_Witness ==
    /\ reg.calls = 2
    /\ reg.result = 0
    /\ Len(m_registered_callbacks) = 1
    /\ m_session = None

\* C26: no step closes a session while cancel() holds the task mutex, and the
\* mutex, whoever holds it, is always released again: no thread that waits for
\* it (start, cancel, a registration or a continuation) waits forever.
C26_ForceCloseAfterUnlockNoDeadlock ==
    /\ [][\A s \in SessionIds :
             (sessions'[s].closed /\ ~sessions[s].closed) => m_mutex # "cancel"]_vars
    /\ (m_mutex # None) ~> (m_mutex = None)

\* cancel() came while the download continuation was pending; the session was
\* force-closed, and the continuation took the mutex and found the session gone.
C26_Witness ==
    /\ cancel_t.pc = "idle"
    /\ cancel_t.calls >= 1
    /\ sessions["S1"].closed
    /\ cont.pc = "swallowed"
    /\ cont.coordinator = None
    /\ m_mutex = None

\* C27 as stated: while the continuation holds the task mutex it is not at a
\* storage-engine, coordinator or file call: not at begin_read (has_pending),
\* get_realm (attach), get_unbound_realm (deliver), the coordinator's close,
\* the removal of the realm file, or get_coordinator.
C27_NoCallUnderMutex ==
    (m_mutex = "cont")
        => cont.pc \notin {"has_pending", "attach", "deliver",
                           "close", "remove", "get_coordinator"}

\* C28: the steps of the schema-migration round trip come in one order. The
\* migration check follows a download completion that reported OK; the upload
\* wait follows a check that found a pending migration and a subscription
\* initializer; the pause follows an upload completion that reported OK; the
\* delete-and-reopen block follows a pause that completed OK, and the file is
\* removed in that block only. A step that fails hands its failure status to
\* async_open_complete with the file still there, which delivers it to the user
\* callback as an error unless a cancel() has taken the session; the file is
\* not removed afterwards. The bootstrap check that follows the removal finds
\* the new coordinator and the new session acquired.
C28_RoundTripInOrder ==
    [][/\ (cont'.pc = "migrate" /\ cont.pc # "migrate")
            => cont.pc = "wait_download" /\ cont'.status = "OK"
       /\ (cont'.pc = "has_pending" /\ cont.pc # "has_pending") => cont.pc = "migrate"
       /\ (cont'.pc = "wait_upload" /\ cont.pc # "wait_upload")
            => /\ cont.pc = "has_pending"
               /\ config.pending_migration /\ config.subscription_initializer
       /\ (cont'.pc = "wait_pause" /\ cont.pc # "wait_pause")
            => cont.pc = "wait_upload" /\ cont'.status = "OK"
       /\ (cont'.pc = "reopen" /\ cont.pc # "reopen")
            => cont.pc = "wait_pause" /\ cont'.status = "OK"
       /\ (cont'.pc = "close" /\ cont.pc # "close") => cont.pc = "reopen"
       /\ (cont'.pc = "remove" /\ cont.pc # "remove") => cont.pc = "close"
       /\ (file_removed' # file_removed)
            => cont.pc = "remove" /\ cont.status = "OK" /\ file_removed'
       /\ (cont.pc \in {"wait_download", "has_pending", "wait_upload", "wait_pause"}
             /\ cont'.pc = "complete")
            => cont'.status # "OK" /\ ~file_removed'
       /\ (cont.pc = "complete" /\ cont'.pc # "complete")
            => cont'.pc = "deliver" \/ (m_session = None /\ cont'.pc = "swallowed")
       /\ (cont.pc = "deliver" /\ cont'.pc # "deliver" /\ cont.status # "OK")
            => /\ cont'.pc = "delivered"
               /\ callback'.calls = callback.calls + 1
               /\ callback'.error
       /\ (cont.pc \in {"complete", "deliver", "delivered", "swallowed"})
            => (file_removed' = file_removed
                  /\ cont'.pc \in {"complete", "deliver", "delivered", "swallowed"})
       /\ (cont'.pc = "bootstrap" /\ cont.pc # "bootstrap" /\ file_removed')
            => /\ cont.pc = "sync_session"
               /\ cont'.coordinator = "C2"
               /\ m_session' = "S2"]_vars

\* A round trip that removed the file, acquired the new coordinator and session
\* and delivered the realm.
C28_Witness ==
    /\ file_removed
    /\ cont.pc = "delivered"
    /\ cont.coordinator = "C2"
    /\ callback.calls = 1
    /\ callback.realm

\* A pause that failed: the error was delivered and the file is still there.
C28_WitnessFailure ==
    /\ config.pending_migration
    /\ config.subscription_initializer
    /\ cont.pc = "delivered"
    /\ cont.status = "Error"
    /\ hist.raised = None
    /\ callback.error
    /\ ~file_removed

\* C29: with a pending migration and no subscription initializer, the step
\* that follows an OK download and the migration check hands
\* SyncSchemaMigrationError to async_open_complete, which delivers it to the
\* user callback as an error (unless a cancel() has taken the session); the
\* task never waits for the upload, pauses the session, removes the file or
\* acquires a second coordinator or session.
C29_PendingWithoutInitializerFails ==
    /\ [][(cont.pc = "has_pending" /\ cont'.pc # "has_pending"
             /\ config.pending_migration /\ ~config.subscription_initializer)
            => /\ cont.status = "OK"
               /\ cont'.pc = "complete"
               /\ cont'.status = "SyncSchemaMigrationError"]_vars
    /\ []((config.pending_migration /\ ~config.subscription_initializer)
            => /\ cont.pc \notin {"wait_upload", "wait_pause", "reopen", "close",
                                  "remove", "get_coordinator", "sync_session"}
               /\ ~file_removed
               /\ cont.coordinator # "C2"
               /\ m_session # "S2"
               /\ (cont.status = "SyncSchemaMigrationError"
                     => cont.pc \in {"complete", "deliver", "delivered", "swallowed"})
               /\ (cont.status = "SyncSchemaMigrationError" /\ cont.pc = "swallowed")
                     => hist.cancelled
               /\ (cont.status = "SyncSchemaMigrationError" /\ cont.pc = "delivered")
                     => (callback.calls = 1 /\ callback.error /\ ~callback.realm))

\* The SyncSchemaMigrationError reached the user callback, no cancel() involved.
C29_Witness ==
    /\ config.pending_migration
    /\ ~config.subscription_initializer
    /\ cont.status = "SyncSchemaMigrationError"
    /\ cont.pc = "delivered"
    /\ callback.error
    /\ cancel_t.calls = 0

\* C30: the bootstrap check goes on to attach to the subscription initializer
\* exactly when flexible sync is requested, a subscription initializer is
\* configured and the status is OK, and otherwise completes with the status it
\* has. An attach step whose get_realm returned waits for the subscription set
\* exactly when the state it read is not Complete or this is the first open of
\* the DB with rerun_on_launch set, and otherwise completes with the status it
\* has, which is OK.
C30_BootstrapAttachAndWait ==
    [][/\ (cont.pc = "bootstrap" /\ cont'.pc # "bootstrap")
            => /\ (cont'.pc = "attach")
                     <=> (config.flx_sync_requested /\ config.subscription_initializer
                            /\ cont.status = "OK")
               /\ (cont'.pc # "attach")
                     => (cont'.pc = "complete" /\ cont'.status = cont.status)
       /\ (cont.pc = "attach" /\ cont'.pc # "attach" /\ hist'.raised = hist.raised)
            => /\ hist'.subscription_state \in {"Complete", "Pending"}
               /\ (cont'.pc = "wait_substate")
                     <=> \/ hist'.subscription_state # "Complete"
                         \/ (config.db_first_open /\ config.rerun_on_launch)
               /\ (cont'.pc # "wait_substate")
                     => (cont'.pc = "complete" /\ cont'.status = cont.status
                           /\ cont.status = "OK")]_vars

\* The subscription set was Complete, and the task waits all the same because
\* this is the first open and the initializer is to be rerun on launch.
C30_Witness ==
    /\ config.db_first_open
    /\ config.rerun_on_launch
    /\ hist.subscription_state = "Complete"
    /\ cont.pc = "wait_substate"

\* C37 as stated: force_close() is called at most once per task, on the session
\* the first effective cancel() took, and never after the user callback was
\* delivered: a step of cancel() that force-closes a session finds no session
\* closed yet and the callback not called.
C37_ForceCloseAtMostOnceBeforeCallback ==
    [][(cancel_t.pc = "unlocked" /\ cancel_t'.pc = "idle")
        => /\ \A s \in SessionIds : ~sessions[s].closed
           /\ callback.calls = 0]_vars

(***************************************************************************)
(*            C l a i m s   a b o u t   r e n a m e _ p r o p e r t y      *)
(***************************************************************************)
\* The table of the call recorded in rn, before the call and after it.
RenamedTableBefore == rn.group.tables[table_name_for_object_type(rn.object_type)]
RenamedTableAfter == group.tables[table_name_for_object_type(rn.object_type)]

\* The column of the table that has the name.
ColumnNamed(tbl, name) == tbl.cols[CHOOSE i \in ColumnsNamed(tbl, name) : TRUE]

\* The error of the first precondition the call violated, None when it violated
\* none: read off the columns of the file and the declarations of the target.
FirstViolatedPrecondition ==
    IF ~HasTable(rn.group, table_name_for_object_type(rn.object_type))
    THEN "NoSuchTable: it does not exist."
    ELSE IF rn.object_type \notin DOMAIN rn.target
    THEN "NoSuchTable: it has been removed from the Realm."
    ELSE IF \E i \in DOMAIN rn.target[rn.object_type].persisted_properties :
                rn.target[rn.object_type].persisted_properties[i].name = rn.old_name
    THEN "IllegalOperation: the source property still exists."
    ELSE IF ColumnsNamed(RenamedTableBefore, rn.old_name) = {}
    THEN "InvalidProperty: it does not exist."
    ELSE IF ColumnsNamed(RenamedTableBefore, rn.new_name) = {} THEN None
    ELSE IF ColumnNamed(RenamedTableBefore, rn.old_name).type
                # ColumnNamed(RenamedTableBefore, rn.new_name).type
            \/ ColumnNamed(RenamedTableBefore, rn.old_name).object_type
                # ColumnNamed(RenamedTableBefore, rn.new_name).object_type
    THEN "IllegalOperation: it would change from type to type."
    ELSE IF ColumnNamed(RenamedTableBefore, rn.old_name).nullable
            /\ ~ColumnNamed(RenamedTableBefore, rn.new_name).nullable
    THEN "IllegalOperation: it would change from optional to required."
    ELSE None

C9_TargetKeyDesignatesRenamedColumn ==
    (rn.pc = "done" /\ group.err = None) =>
        /\ ColumnsNamed(RenamedTableAfter, rn.old_name) = {}
        /\ ColumnsNamed(RenamedTableAfter, rn.new_name) # {}
        /\ ColumnNamed(RenamedTableAfter, rn.new_name).data
               = ColumnNamed(RenamedTableBefore, rn.old_name).data
        /\ \A i \in DOMAIN target[rn.object_type].persisted_properties :
               target[rn.object_type].persisted_properties[i].name = rn.new_name
                   => target[rn.object_type].persisted_properties[i].column_key
                          = ColumnNamed(RenamedTableAfter, rn.new_name).key

(***************************************************************************)
(*    a p p l y _ s c h e m a _ c h a n g e s   o n   a   n e w   f i l e  *)
(***************************************************************************)
Link(name, object_type, nullable) ==
    [name |-> name, type |-> "Object", nullable |-> nullable, object_type |-> object_type,
     is_primary |-> FALSE, requires_index |-> FALSE, column_key |-> 0]

\* The target schemas of a first open: those of Schemas, and schemas with an
\* asymmetric table, a String primary key, and links to the class itself, to
\* the class Schema::compare visits before it and to the one it visits after.
NewFileSchemas ==
    Schemas
    \cup {("Dog" :> Object("Dog", "TopLevelAsymmetric", "", <<IntA>>)),
          ("Dog" :> Object("Dog", "TopLevel", "b",
                           <<IntA, Prop("b", "String", TRUE, TRUE, TRUE)>>)),
          ("Dog" :> Object("Dog", "TopLevel", "", <<IntA, Link("mate", "Dog", TRUE)>>)),
          ("Cat" :> Object("Cat", "TopLevel", "", <<IntA>>))
              @@ ("Dog" :> Object("Dog", "TopLevel", "", <<IntA, Link("friend", "Cat", TRUE)>>)),
          ("Cat" :> Object("Cat", "TopLevel", "", <<IntA, Link("owner", "Dog", TRUE)>>))
              @@ ("Dog" :> Object("Dog", "TopLevel", "", <<IntA>>))}

\* An empty file without a version, a target schema whose keys are unset, and
\* no call made.
NewFileInit ==
    /\ group = EmptyGroup
    /\ target \in NewFileSchemas
    /\ ap = [pc |-> "start"]
    /\ rn = None
    /\ AsyncIdle
    /\ VerifyIdle

\* The two paths a file without a version can take.
NewFileNext ==
    \/ \E mode \in SchemaModes, target_schema_version \in Versions, flag \in BOOLEAN :
           ApplyAdditive(mode, target_schema_version, flag)
    \/ \E mode \in SchemaModes, target_schema_version \in Versions :
           ApplyUnversioned(mode, target_schema_version)

SpecNewFile == NewFileInit /\ [][NewFileNext]_vars

(***************************************************************************)
(*        C a l l s   o n   a n   o p e n   f i l e                        *)
(* vresult keeps the last call, the number of calls made, what             *)
(* schema_from_group and is_empty returned last, and the version that was  *)
(* handed to set_schema_version last.                                      *)
(***************************************************************************)
\* The tables of a file that belong to no class of a schema: one whose name
\* lacks the prefix, one whose object type is empty, one whose object type
\* begins with two underscores.
InternalTables == {<<"", "pk">>, <<c_object_table_prefix, "">>,
                   <<c_object_table_prefix, "__Internal">>}

\* A file without a version: empty or holding class Dog, with or without an
\* object in it, and any of the internal tables, each holding one object.
GroupInit ==
    /\ \E dog \in {"absent", "empty", "filled"}, internal \in SUBSET InternalTables :
          LET base == IF dog = "absent" THEN EmptyGroup
                      ELSE FileOf(("Dog" :> Object("Dog", "TopLevel", "", <<IntA>>)),
                                  NotVersioned)
              file == IF dog = "filled"
                      THEN [base EXCEPT !.tables[table_name_for_object_type("Dog")].rows = <<1>>]
                      ELSE base
              Add(g, n) == IF n \in internal
                           THEN [group_add_table(g, n, "TopLevel", <<>>)
                                     EXCEPT !.tables[n].rows = <<1>>]
                           ELSE g
          IN group = Add(Add(Add(file, <<"", "pk">>), <<c_object_table_prefix, "">>),
                         <<c_object_table_prefix, "__Internal">>)
    /\ target = ("Dog" :> Object("Dog", "TopLevel", "", <<IntA, IntB>>))
    /\ ap = [pc |-> "start"]
    /\ rn = None
    /\ vchanges = <<>>
    /\ vresult = [op |-> None, calls |-> 0, schema |-> EmptySchema, empty |-> FALSE,
                  version |-> NotVersioned]
    /\ AsyncIdle

\* ::create_metadata_tables, lines 52-61.
CreateMetadataTables ==
    /\ vresult.calls < MaxCalls
    /\ group' = create_metadata_tables(group)
    /\ vresult' = [vresult EXCEPT !.op = "create_metadata_tables", !.calls = @ + 1]
    /\ UNCHANGED <<target, ap, rn, vchanges>>
    /\ UNCHANGED avars

\* ObjectStore::set_schema_version, lines 227-231.
SetSchemaVersion(version) ==
    /\ vresult.calls < MaxCalls
    /\ group' = set_schema_version(group, version)
    /\ vresult' = [vresult EXCEPT !.op = "set_schema_version", !.calls = @ + 1,
                                  !.version = version]
    /\ UNCHANGED <<target, ap, rn, vchanges>>
    /\ UNCHANGED avars

\* ObjectStore::schema_from_group, lines 963-974.
SchemaFromGroup ==
    /\ vresult.calls < MaxCalls
    /\ vresult' = [vresult EXCEPT !.op = "schema_from_group", !.calls = @ + 1,
                                  !.schema = schema_from_group(group)]
    /\ UNCHANGED <<group, target, ap, rn, vchanges>>
    /\ UNCHANGED avars

\* ObjectStore::is_empty, lines 997-1010.
IsEmpty ==
    /\ vresult.calls < MaxCalls
    /\ vresult' = [vresult EXCEPT !.op = "is_empty", !.calls = @ + 1,
                                  !.empty = is_empty(group)]
    /\ UNCHANGED <<group, target, ap, rn, vchanges>>
    /\ UNCHANGED avars

\* The calls on the file, and one call of apply_schema_changes among them.
GroupNext ==
    \/ CreateMetadataTables
    \/ \E version \in Versions \cup {NotVersioned} : SetSchemaVersion(version)
    \/ SchemaFromGroup
    \/ IsEmpty
    \/ \E mode \in SchemaModes, target_schema_version \in Versions, flag \in BOOLEAN :
           ApplyAdditive(mode, target_schema_version, flag)
    \/ \E mode \in SchemaModes, target_schema_version \in Versions :
           ApplyUnversioned(mode, target_schema_version)

SpecGroup == GroupInit /\ [][GroupNext]_vars

(***************************************************************************)
(*      C l a i m s   a b o u t   a p p l y _ s c h e m a _ c h a n g e s  *)
(***************************************************************************)
Returned == ap.pc = "returned"

\* The condition of line 892 for the call recorded in ap.
SetSchema ==
    \/ ap.schema_version < ap.target_schema_version
    \/ ap.schema_version = NotVersioned
    \/ ap.flag

\* C5, as stated: on every path that returns normally the target version has been
\* written exactly once.
C5_VersionWrittenExactlyOnce == Returned => group.writes = 1

\* C5, as the code has it: the version is never written twice; a call that
\* returns has written it once on the unversioned, the Manual and the migration
\* path, not at all on the same-version path, and on the additive path once when
\* the condition of line 892 holds and not at all otherwise.
C5_VersionWrittenOncePerPath ==
    /\ group.writes <= 1
    /\ Returned =>
           group.writes = IF \/ ap.path \in {"unversioned", "manual", "migration"}
                             \/ ap.path = "additive" /\ SetSchema
                          THEN 1 ELSE 0

\* A call on the same-version path that created a table returned without writing
\* the version.
C5_Witness ==
    /\ Returned
    /\ ap.path = "same_version"
    /\ \E i \in DOMAIN ap.changes : ap.changes[i].kind = "AddTable"
    /\ group.writes = 0
    /\ get_schema_version(group) = ap.target_schema_version

\* The key of the property names a column of the table with the property's name.
ColumnKeyLive(tbl, property) ==
    /\ valid_column(tbl, property.column_key)
    /\ ColumnAt(tbl, property.column_key).name = property.name

\* The keys of the object schema name its table and the columns of its properties.
KeysLive(object_schema) ==
    /\ HasTable(group, table_name_for_object_type(object_schema.name))
    /\ object_schema.table_key
           = group.tables[table_name_for_object_type(object_schema.name)].key
    /\ \A i \in DOMAIN object_schema.persisted_properties :
           ColumnKeyLive(group.tables[table_name_for_object_type(object_schema.name)],
                         object_schema.persisted_properties[i])

\* The keys of the object schema are live where the file has the table or the
\* column, and unset where it has not.
KeysLiveOrUnset(object_schema) ==
    IF ~HasTable(group, table_name_for_object_type(object_schema.name))
    THEN /\ object_schema.table_key = 0
         /\ \A i \in DOMAIN object_schema.persisted_properties :
                object_schema.persisted_properties[i].column_key = 0
    ELSE /\ object_schema.table_key
                = group.tables[table_name_for_object_type(object_schema.name)].key
         /\ \A i \in DOMAIN object_schema.persisted_properties :
                \/ ColumnKeyLive(
                       group.tables[table_name_for_object_type(object_schema.name)],
                       object_schema.persisted_properties[i])
                \/ /\ object_schema.persisted_properties[i].column_key = 0
                   /\ ColumnsNamed(
                          group.tables[table_name_for_object_type(object_schema.name)],
                          object_schema.persisted_properties[i].name) = {}

C7_AdditiveVersionRule ==
    (ap.pc # "start" /\ ap.path = "additive") =>
        /\ Returned
        /\ get_schema_version(group) = IF SetSchema THEN ap.target_schema_version
                                       ELSE ap.schema_version

\* A file at version 1 opened with target version 2 and a schema that adds a
\* property: the call returned and the file is at version 2.
C7_Witness ==
    /\ Returned
    /\ ap.mode = "AdditiveDiscovered"
    /\ ap.schema_version = 1
    /\ ap.target_schema_version = 2
    /\ ~ap.flag
    /\ \E i \in DOMAIN ap.changes : ap.changes[i].kind = "AddProperty"
    /\ get_schema_version(group) = 2

\* The object tables of a group: the tables of classes, by name.
ObjectTables(g) ==
    [n \in {m \in DOMAIN g.tables : object_type_for_table_name(m) # ""} |-> g.tables[n]]

\* C18: a call of apply_schema_changes on a file without a version in mode
\* ReadOnly leaves the object tables as they were, no table created and no
\* column added, whatever changes it was given, and returns normally, with an
\* empty in-memory schema as with any other.
C18_ReadOnlyUnversionedLeavesObjectTables ==
    [][(ap.pc = "start" /\ ap'.pc # "start" /\ ap'.path = "unversioned"
            /\ ap'.mode = "ReadOnly")
        => /\ ap'.pc = "returned"
           /\ ObjectTables(group') = ObjectTables(group)]_vars

\* C18 witness: such a call has returned for a list of four changes, and the
\* file has no object table.
C18_Witness ==
    /\ ap.pc = "returned"
    /\ ap.path = "unversioned"
    /\ ap.mode = "ReadOnly"
    /\ Len(ap.changes) = 4
    /\ DOMAIN ObjectTables(group) = {}
    /\ get_schema_version(group) = ap.target_schema_version

\* C18 witness with an empty in-memory schema: the call has returned, given no
\* change, on a file that has the table of a class.
C18_WitnessEmptySchema ==
    /\ ap.pc = "returned"
    /\ ap.path = "unversioned"
    /\ ap.mode = "ReadOnly"
    /\ target = EmptySchema
    /\ DOMAIN ObjectTables(group) # {}

\* The column of this name in the table of the change's class, if there is
\* just one.
TheColumn(g, change, name) ==
    LET tbl == g.tables[TableOf(change)]
    IN IF Cardinality(ColumnsNamed(tbl, name)) = 1
       THEN <<tbl.cols[CHOOSE i \in ColumnsNamed(tbl, name) : TRUE]>>
       ELSE <<>>

\* The change is in effect in the group.
InEffect(g, change) ==
    CASE change.kind = "AddTable" -> HasTable(g, TableOf(change))
      [] change.kind = "AddInitialProperties" ->
             /\ HasTable(g, TableOf(change))
             /\ \A i \in 1..Len(change.object.persisted_properties) :
                    LET p == change.object.persisted_properties[i]
                        c == TheColumn(g, change, p.name)
                    IN /\ Len(c) = 1
                       /\ c[1].type = p.type
                       /\ c[1].nullable = p.nullable
      [] change.kind = "AddIndex" ->
             /\ Len(TheColumn(g, change, change.property.name)) = 1
             /\ TheColumn(g, change, change.property.name)[1].indexed
      [] change.kind = "RemoveIndex" ->
             /\ Len(TheColumn(g, change, change.property.name)) = 1
             /\ ~TheColumn(g, change, change.property.name)[1].indexed
      [] OTHER -> TRUE

\* C19: once a call with schema_version equal to target_schema_version on a
\* versioned file, in a mode neither additive nor Manual, has ended, every
\* AddTable, AddInitialProperties, AddIndex and RemoveIndex change of its list
\* is in effect in the group, and the version row was not written: the file
\* has the version it had.
C19_SameVersionAppliesWithoutVersionWrite ==
    (ap.pc \in {"returned", "threw"} /\ ap.path = "same_version") =>
        /\ \A i \in 1..Len(ap.changes) : InEffect(group, ap.changes[i])
        /\ group.writes = 0
        /\ get_schema_version(group) = ap.schema_version
        /\ ap.pc = "threw" => group.err = "SchemaMismatchException"

\* C19 witness: such a call at version 2 has returned after an AddIndex, the
\* column is indexed and the version row holds 2, unwritten.
C19_Witness ==
    /\ ap.pc = "returned"
    /\ ap.path = "same_version"
    /\ ap.schema_version = 2
    /\ \E i \in 1..Len(ap.changes) :
           /\ ap.changes[i].kind = "AddIndex"
           /\ TheColumn(group, ap.changes[i], ap.changes[i].property.name)[1].indexed
    /\ group.writes = 0
    /\ get_schema_version(group) = 2

\* C19 witness with a new class: such a call has returned after an AddTable
\* and its AddInitialProperties on a file that had another class.
C19_WitnessAddTable ==
    /\ ap.pc = "returned"
    /\ ap.path = "same_version"
    /\ \E i \in 1..Len(ap.changes) : ap.changes[i].kind = "AddInitialProperties"
    /\ Cardinality(DOMAIN ObjectTables(group)) = 2
    /\ group.writes = 0

(***************************************************************************)
(*                 C l a i m s   a b o u t   v i s i t o r s               *)
(***************************************************************************)
\* C10: needs_migration(changes) is true if and only if the sequence holds a
\* change of one of the seven migration-requiring variants; sequences of
\* AddTable, RemoveTable, AddInitialProperties, AddIndex and RemoveIndex only,
\* and the empty sequence, give false.
C10_NeedsMigrationIffMigrationVariant ==
    vresult.op = "needs_migration" =>
        (vresult.value <=>
            \E i \in 1..Len(vchanges) :
                vchanges[i].kind \in {"AddProperty", "RemoveProperty", "ChangeTableType",
                                      "ChangePrimaryKey", "ChangePropertyType",
                                      "MakePropertyNullable", "MakePropertyRequired"})

\* C10 witness: needs_migration has returned true for a sequence whose only
\* migration-requiring change is an AddProperty that follows additive changes.
C10_Witness ==
    /\ vresult.op = "needs_migration"
    /\ vresult.value
    /\ Len(vchanges) = 3
    /\ vchanges[1].kind = "AddTable"
    /\ vchanges[2].kind = "AddIndex"
    /\ vchanges[3].kind = "AddProperty"

(***************************************************************************)
(*                 C l a i m s   a b o u t   v e r i f i e r s             *)
(***************************************************************************)
\* The lines of a message that carry a mismatch entry.
Entries(message) == SelectSeq(message, LAMBDA l : l[1] = "- ")

\* The positions of the sequence whose variant is not one of kinds, ascending.
PositionsOutside(kinds) ==
    SelectSeq([i \in 1..Len(vchanges) |-> i], LAMBDA i : vchanges[i].kind \notin kinds)

\* The entries that report, in order, the changes whose variant is not one of
\* kinds, each by the explainer's sentence for it.
EntriesReporting(kinds) ==
    [k \in 1..Len(PositionsOutside(kinds)) |->
        <<"- ", SchemaDifferenceExplainer(vchanges[PositionsOutside(kinds)[k]])[1]>>]

\* C11 as stated: verify_no_changes_required throws SchemaMismatch for every
\* non-empty sequence and the error has an entry for every change of it,
\* whatever its variant.
C11_EveryChangeReported ==
    vresult.op = "verify_no_changes_required" =>
        /\ vresult.outcome.threw <=> Len(vchanges) > 0
        /\ vresult.outcome.threw =>
               /\ vresult.outcome.exception.code = "SchemaMismatch"
               /\ Len(Entries(vresult.outcome.exception.message)) = Len(vchanges)

\* C11: verify_no_changes_required throws SchemaMismatch if and only if the
\* sequence holds a change that is neither RemoveTable nor AddInitialProperties,
\* and the error has one entry for every such change, in sequence order;
\* RemoveTable and AddInitialProperties are passed over silently.
C11_EveryChangeButTwoReported ==
    vresult.op = "verify_no_changes_required" =>
        /\ vresult.outcome.threw <=>
               \E i \in 1..Len(vchanges) :
                   vchanges[i].kind \notin {"RemoveTable", "AddInitialProperties"}
        /\ vresult.outcome.threw =>
               /\ vresult.outcome.exception.code = "SchemaMismatch"
               /\ vresult.outcome.exception.type = "SchemaMismatchException"
               /\ Entries(vresult.outcome.exception.message)
                      = EntriesReporting({"RemoveTable", "AddInitialProperties"})

\* C11 witness: verify_no_changes_required has thrown for a sequence of an
\* AddTable, a RemoveTable and a RemoveIndex, with two entries.
C11_Witness ==
    /\ vresult.op = "verify_no_changes_required"
    /\ vresult.outcome.threw
    /\ Len(vchanges) = 3
    /\ vchanges[1].kind = "AddTable"
    /\ vchanges[2].kind = "RemoveTable"
    /\ vchanges[3].kind = "RemoveIndex"
    /\ Len(Entries(vresult.outcome.exception.message)) = 2

\* C12 as stated: verify_valid_additive_changes throws InvalidSchemaChange if
\* and only if the sequence holds a change that is not AddTable,
\* AddInitialProperties, AddProperty, RemoveProperty, AddIndex or RemoveIndex;
\* otherwise it returns true if and only if the sequence holds a change other
\* than an index change, or an index change while update_indexes is set.
C12_TrueForAnyOtherChange ==
    vresult.op = "verify_valid_additive_changes" =>
        /\ vresult.outcome.threw <=>
               \E i \in 1..Len(vchanges) :
                   vchanges[i].kind \notin {"AddTable", "AddInitialProperties", "AddProperty",
                                            "RemoveProperty", "AddIndex", "RemoveIndex"}
        /\ vresult.outcome.threw => vresult.outcome.exception.code = "InvalidSchemaChange"
        /\ ~vresult.outcome.threw =>
               (vresult.outcome.value <=>
                    \/ \E i \in 1..Len(vchanges) :
                           vchanges[i].kind \notin {"AddIndex", "RemoveIndex"}
                    \/ /\ vresult.update_indexes
                       /\ \E i \in 1..Len(vchanges) :
                              vchanges[i].kind \in {"AddIndex", "RemoveIndex"})

\* C12: verify_valid_additive_changes throws InvalidSchemaChange (additive
\* headline) if and only if the sequence holds a change that is not AddTable,
\* RemoveTable, AddInitialProperties, AddProperty, RemoveProperty, AddIndex or
\* RemoveIndex; otherwise it returns true if and only if the sequence holds an
\* AddTable, AddInitialProperties or AddProperty, or holds an AddIndex or
\* RemoveIndex while update_indexes is set.
C12_TrueForAdditionsAndWantedIndexChanges ==
    vresult.op = "verify_valid_additive_changes" =>
        /\ vresult.outcome.threw <=>
               \E i \in 1..Len(vchanges) :
                   vchanges[i].kind \notin {"AddTable", "RemoveTable", "AddInitialProperties",
                                            "AddProperty", "RemoveProperty", "AddIndex",
                                            "RemoveIndex"}
        /\ vresult.outcome.threw =>
               /\ vresult.outcome.exception.code = "InvalidSchemaChange"
               /\ vresult.outcome.exception.message[1]
                      = <<"The following changes cannot be made in additive-only schema mode:">>
        /\ ~vresult.outcome.threw =>
               (vresult.outcome.value <=>
                    \/ \E i \in 1..Len(vchanges) :
                           vchanges[i].kind \in {"AddTable", "AddInitialProperties",
                                                 "AddProperty"}
                    \/ /\ vresult.update_indexes
                       /\ \E i \in 1..Len(vchanges) :
                              vchanges[i].kind \in {"AddIndex", "RemoveIndex"})

\* C12 witness: verify_valid_additive_changes has returned false, update_indexes
\* unset, for a RemoveProperty, a RemoveTable and an AddIndex.
C12_Witness ==
    /\ vresult.op = "verify_valid_additive_changes"
    /\ ~vresult.update_indexes
    /\ ~vresult.outcome.threw
    /\ ~vresult.outcome.value
    /\ Len(vchanges) = 3
    /\ vchanges[1].kind = "RemoveProperty"
    /\ vchanges[2].kind = "RemoveTable"
    /\ vchanges[3].kind = "AddIndex"

C13_WitnessThrown ==
    /\ vresult.op = "verify_no_migration_required"
    /\ vresult.outcome.threw
    /\ Len(vchanges) = 3
    /\ vchanges[1].kind = "AddIndex"
    /\ vchanges[2].kind = "AddProperty"
    /\ vchanges[3].kind = "RemoveIndex"

\* C15 as stated: verify_compatible_for_immutable_and_readonly returns normally
\* if and only if every change is AddTable, AddInitialProperties,
\* ChangeTableType, RemoveProperty, AddIndex or RemoveIndex; any other variant
\* makes it throw InvalidSchemaChange with the read-only headline.
C15_OnlySixVariantsPass ==
    vresult.op = "verify_compatible_for_immutable_and_readonly" =>
        /\ ~vresult.outcome.threw <=>
               \A i \in 1..Len(vchanges) :
                   vchanges[i].kind \in {"AddTable", "AddInitialProperties", "ChangeTableType",
                                         "RemoveProperty", "AddIndex", "RemoveIndex"}
        /\ vresult.outcome.threw => vresult.outcome.exception.code = "InvalidSchemaChange"

\* C15: verify_compatible_for_immutable_and_readonly returns normally if and
\* only if every change is AddTable, RemoveTable, AddInitialProperties,
\* ChangeTableType, RemoveProperty, AddIndex or RemoveIndex; any other variant
\* makes it throw InvalidSchemaChange with the read-only headline.
C15_SixVariantsAndRemoveTablePass ==
    vresult.op = "verify_compatible_for_immutable_and_readonly" =>
        /\ ~vresult.outcome.threw <=>
               \A i \in 1..Len(vchanges) :
                   vchanges[i].kind \in {"AddTable", "RemoveTable", "AddInitialProperties",
                                         "ChangeTableType", "RemoveProperty", "AddIndex",
                                         "RemoveIndex"}
        /\ vresult.outcome.threw =>
               /\ vresult.outcome.exception.code = "InvalidSchemaChange"
               /\ vresult.outcome.exception.message[1]
                      = <<"The following changes cannot be made in read-only schema mode:">>

\* C15 witness: it has returned normally for a ChangeTableType, a
\* RemoveProperty and a RemoveTable.
C15_Witness ==
    /\ vresult.op = "verify_compatible_for_immutable_and_readonly"
    /\ ~vresult.outcome.threw
    /\ Len(vchanges) = 3
    /\ vchanges[1].kind = "ChangeTableType"
    /\ vchanges[2].kind = "RemoveProperty"
    /\ vchanges[3].kind = "RemoveTable"

\* C15 witness of the other side: it has thrown for an AddProperty after two
\* accepted changes.
C15_WitnessThrown ==
    /\ vresult.op = "verify_compatible_for_immutable_and_readonly"
    /\ vresult.outcome.threw
    /\ Len(vchanges) = 3
    /\ vchanges[1].kind = "ChangeTableType"
    /\ vchanges[2].kind = "RemoveProperty"
    /\ vchanges[3].kind = "AddProperty"

\* The positions of the changes verify_valid_external_changes is to report.
ExternallyReported ==
    SelectSeq([i \in 1..Len(vchanges) |-> i],
              LAMBDA i : vchanges[i].kind \in {"RemoveTable", "RemoveProperty",
                                               "ChangeTableType", "ChangePropertyType",
                                               "MakePropertyNullable", "MakePropertyRequired",
                                               "ChangePrimaryKey"})

\* C14: verify_valid_external_changes says nothing of AddTable,
\* AddInitialProperties, AddProperty, AddIndex and RemoveIndex, reports a
\* RemoveTable as "Class ... has been removed." and every RemoveProperty,
\* ChangeTableType, ChangePropertyType, MakePropertyNullable,
\* MakePropertyRequired and ChangePrimaryKey by the explainer's sentence, and
\* throws InvalidSchemaChange if and only if it reported a change.
C14_ExternalChangesReported ==
    vresult.op = "verify_valid_external_changes" =>
        /\ vresult.outcome.threw <=> Len(ExternallyReported) > 0
        /\ vresult.outcome.threw =>
               /\ vresult.outcome.exception.code = "InvalidSchemaChange"
               /\ vresult.outcome.exception.message[1]
                      = <<"Unsupported schema changes were made by another client or process:">>
               /\ Entries(vresult.outcome.exception.message)
                      = [k \in 1..Len(ExternallyReported) |->
                            LET change == vchanges[ExternallyReported[k]]
                            IN IF change.kind = "RemoveTable"
                               THEN <<"- ", <<"Class", change.object.name, "has been removed.">>>>
                               ELSE <<"- ", SchemaDifferenceExplainer(change)[1]>>]

\* C14 witness: it has thrown for an AddProperty, a RemoveTable and a
\* RemoveProperty, with the two entries of the last two.
C14_Witness ==
    /\ vresult.op = "verify_valid_external_changes"
    /\ vresult.outcome.threw
    /\ Len(vchanges) = 3
    /\ vchanges[1].kind = "AddProperty"
    /\ vchanges[2].kind = "RemoveTable"
    /\ vchanges[3].kind = "RemoveProperty"
    /\ Len(Entries(vresult.outcome.exception.message)) = 2

\* The variants a verifier's overloads record nothing for.
SilentKinds(op) ==
    CASE op = "verify_no_changes_required" -> {"RemoveTable", "AddInitialProperties"}
      [] op = "verify_no_migration_required" ->
             {"RemoveTable", "AddTable", "AddInitialProperties", "AddIndex", "RemoveIndex"}
      [] op = "verify_valid_additive_changes" ->
             {"RemoveTable", "AddTable", "AddInitialProperties", "AddProperty",
              "RemoveProperty", "AddIndex", "RemoveIndex"}
      [] op = "verify_valid_external_changes" ->
             {"AddTable", "AddInitialProperties", "AddProperty", "AddIndex", "RemoveIndex"}
      [] op = "verify_compatible_for_immutable_and_readonly" ->
             {"RemoveTable", "AddTable", "AddInitialProperties", "ChangeTableType",
              "RemoveProperty", "AddIndex", "RemoveIndex"}

\* The class and, where the variant has one, the property an entry names.
Subject(change) ==
    IF change.kind \in {"AddTable", "RemoveTable", "ChangeTableType", "ChangePrimaryKey"}
    THEN <<change.object.name>>
    ELSE IF change.kind = "ChangePropertyType"
    THEN <<change.object.name, change.new_property.name>>
    ELSE <<change.object.name, change.property.name>>

\* An entry is about a change: it is a mismatch line, names the change's
\* subject, and is the sentence the verifier has for that change alone.
EntryIsAbout(op, entry, change) ==
    /\ entry[1] = "- "
    /\ SubSeq(entry[2], 2, 1 + Len(Subject(change))) = Subject(change)
    /\ entry[2] = IF op = "verify_valid_external_changes" /\ change.kind = "RemoveTable"
                  THEN <<"Class", change.object.name, "has been removed.">>
                  ELSE SchemaDifferenceExplainer(change)[1]

\* C16: whichever verifier is called, the error it throws carries one entry
\* for every change of the sequence its overloads reject, in sequence order,
\* after the headline; it throws if and only if there is such a change; and
\* the call leaves the group as it was.
C16_AllErrorsInOrderGroupUntouched ==
    /\ [](vresult.op \notin {None, "needs_migration"} =>
             LET illegal == PositionsOutside(SilentKinds(vresult.op))
                 entries == Entries(vresult.outcome.exception.message)
             IN /\ vresult.outcome.threw <=> Len(illegal) > 0
                /\ Len(entries) = Len(illegal)
                /\ \A k \in 1..Len(illegal) :
                       /\ EntryIsAbout(vresult.op, entries[k], vchanges[illegal[k]])
                       /\ vresult.outcome.exception.message[1 + k] = entries[k])
    /\ [][group' = group]_vars

\* C16 witness: the additive verifier has thrown for three rejected changes of
\* three variants, with three entries.
C16_Witness ==
    /\ vresult.op = "verify_valid_additive_changes"
    /\ vresult.outcome.threw
    /\ Len(vchanges) = 3
    /\ vchanges[1].kind = "ChangePropertyType"
    /\ vchanges[2].kind = "ChangeTableType"
    /\ vchanges[3].kind = "MakePropertyRequired"
    /\ Len(Entries(vresult.outcome.exception.message)) = 3
    /\ HasTable(group, table_name_for_object_type("Dog"))

(***************************************************************************)
(*     C l a i m s   a b o u t   o p e n i n g   a   n e w   f i l e       *)
(***************************************************************************)
\* What a property declares: name, type, nullability and link target.
Declared(property) ==
    <<property.name, property.type, property.nullable, property.object_type>>

\* The schema read from the group has the classes of the declared schema, each
\* with the declared table type, primary key and persisted properties, and
\* every declared property is one column of the table and no column is more.
ReadsBackAs(g, declared) ==
    LET read == schema_from_group(g)
    IN /\ DOMAIN read = DOMAIN declared
       /\ \A t \in DOMAIN declared :
              /\ read[t].table_type = declared[t].table_type
              /\ read[t].primary_key = declared[t].primary_key
              /\ {Declared(read[t].persisted_properties[i]) :
                      i \in 1..Len(read[t].persisted_properties)}
                 = {Declared(declared[t].persisted_properties[i]) :
                      i \in 1..Len(declared[t].persisted_properties)}
              /\ Len(read[t].persisted_properties) = Len(declared[t].persisted_properties)

\* C17 as stated: whatever the target schema, once apply_schema_changes, called
\* in a writing mode on an empty file without a version with the changes from
\* the empty schema to the target, has ended, it has returned normally and
\* schema_from_group reads the target schema back: same classes, table types,
\* primary keys and persisted properties (name, type, nullability, link
\* target), each column once.
C17_NewFileReadsBackAsTarget ==
    (ap.pc \in {"returned", "threw"} /\ ap.mode \notin {"ReadOnly", "Immutable"}) =>
        /\ ap.pc = "returned"
        /\ ReadsBackAs(group, target)

(***************************************************************************)
(*          C l a i m s   a b o u t   a n   o p e n   f i l e              *)
(***************************************************************************)
\* A table is internal when its name lacks the prefix, or its object type is
\* empty or begins with two underscores.
IsInternal(n) ==
    \/ n[1] # c_object_table_prefix
    \/ n[2] = ""
    \/ n[2] = "__Internal"

\* C24 as stated: the schema that schema_from_group returns has an ObjectSchema
\* for no internal table, and is_empty returns false only when a table that is
\* not internal holds an object.
C24_InternalTablesIgnored ==
    [][/\ (vresult'.calls = vresult.calls + 1 /\ vresult'.op = "schema_from_group")
            => \A t \in DOMAIN vresult'.schema :
                  ~IsInternal(table_name_for_object_type(t))
       /\ (vresult'.calls = vresult.calls + 1 /\ vresult'.op = "is_empty")
            => (~vresult'.empty
                  => \E n \in DOMAIN group.tables :
                        ~IsInternal(n) /\ Len(group.tables[n].rows) > 0)]_vars

\* C25: a call of create_metadata_tables on a group whose metadata table has
\* its column changes nothing; on any other group it leaves the metadata table
\* with one column and one object holding NotVersioned and no other table
\* changed. Whatever calls of create_metadata_tables, set_schema_version and
\* apply_schema_changes were made, a metadata table has exactly one object, and
\* get_schema_version returns the version that was written last: the one the
\* step wrote if it wrote one, the one it found otherwise, NotVersioned when
\* none was ever written.
C25_MetadataIdempotentOneRow ==
    /\ [](HasTable(group, c_metadataTableName)
            => /\ Len(group.tables[c_metadataTableName].cols) = 1
               /\ Len(group.tables[c_metadataTableName].rows) = 1)
    /\ [](group.writes = 0 => get_schema_version(group) = NotVersioned)
    /\ [][/\ (vresult'.calls = vresult.calls + 1 /\ vresult'.op = "create_metadata_tables")
               => IF HasTable(group, c_metadataTableName)
                  THEN group' = group
                  ELSE /\ get_schema_version(group') = NotVersioned
                       /\ group'.tables[c_metadataTableName].rows = <<ToInt64(NotVersioned)>>
                       /\ DOMAIN group'.tables = DOMAIN group.tables \cup {c_metadataTableName}
                       /\ \A n \in DOMAIN group.tables : group'.tables[n] = group.tables[n]
          /\ IF group'.writes > group.writes
             THEN get_schema_version(group') =
                      IF ap' # ap THEN ap'.target_schema_version ELSE vresult'.version
             ELSE get_schema_version(group') = get_schema_version(group)]_vars

\* A version was set, and a later create_metadata_tables kept it.
C25_Witness ==
    /\ vresult.op = "create_metadata_tables"
    /\ vresult.calls = 2
    /\ ap.pc = "start"
    /\ group.writes = 1
    /\ vresult.version = 1
    /\ get_schema_version(group) = 1

(***************************************************************************)
(*        C l a i m s   a b o u t   t h e   m i g r a t i o n   p a t h    *)
(***************************************************************************)
\* The class of the target reads back from the group as declared: table type,
\* primary key and persisted properties, each column once.
ClassReadsBack(g, declared, t) ==
    LET read == schema_from_group(g)
    IN /\ t \in DOMAIN read
       /\ read[t].table_type = declared[t].table_type
       /\ read[t].primary_key = declared[t].primary_key
       /\ {Declared(read[t].persisted_properties[i]) :
               i \in 1..Len(read[t].persisted_properties)}
          = {Declared(declared[t].persisted_properties[i]) :
               i \in 1..Len(declared[t].persisted_properties)}
       /\ Len(read[t].persisted_properties) = Len(declared[t].persisted_properties)

\* C31: on the migration path with a migration function, the function is
\* entered with the pre-migration changes made (every class of the target has
\* its table and every property its column) and the keys of the target set from
\* that group, and with no version written; the version is not written as long
\* as the function runs; the step that follows its return works from the schema
\* re-read from the group: when it returns, every class of the target reads
\* back as declared whatever the function renamed or deleted, the version is
\* the target version and the keys of the target are those of the group.
C31_MigrationOrderRereadsSchema ==
    /\ [][(ap.pc = "start" /\ ap'.pc = "callback" /\ ap'.path = "migration")
            => /\ group'.writes = group.writes
               /\ get_schema_version(group') = get_schema_version(group)
               /\ \A t \in DOMAIN target :
                     /\ HasTable(group', table_name_for_object_type(t))
                     /\ \A i \in 1..Len(target[t].persisted_properties) :
                           get_column_key(group'.tables[table_name_for_object_type(t)],
                                          target[t].persisted_properties[i].name) # 0
               /\ target' = set_schema_keys(group', target)]_vars
    /\ []((ap.pc \in {"callback", "after_callback"} /\ ap.path = "migration")
            => (group.writes = 0 /\ get_schema_version(group) = ap.schema_version))
    /\ [][(ap.pc = "after_callback" /\ ap'.pc = "returned" /\ ap.path = "migration"
             /\ ap.migration_function)
            => /\ \A t \in DOMAIN target : ClassReadsBack(group', target, t)
               /\ group'.writes = 1
               /\ get_schema_version(group') = ap.target_schema_version
               /\ target' = set_schema_keys(group', target)]_vars

\* The migration function deleted the table of Dog, which the file had and the
\* target declares, and the call returned with the table created anew.
C31_Witness ==
    /\ Returned
    /\ ap.path = "migration"
    /\ ap.migration_function
    /\ ap.calls > 0
    /\ "Dog" \in DOMAIN ap.old_schema
    /\ "Dog" \in DOMAIN target
    /\ HasTable(group, table_name_for_object_type("Dog"))
    /\ group.tables[table_name_for_object_type("Dog")].key # ap.old_schema["Dog"].table_key

\* C32: when the migration function is entered, every column a RemoveProperty
\* change names is in its table under its key and name with the data it held,
\* every table a ChangeTableType change names has the type it had, and every
\* table a ChangePrimaryKey change names has no primary key. The removals, the
\* table types and the primary keys of the target are in effect when the call
\* returns, with or without a migration function: every class of the target
\* then reads back as declared.
C32_DeferredUntilAfterCallback ==
    /\ [][(ap.pc = "start" /\ ap'.pc = "callback" /\ ap'.path = "migration")
            => \A i \in 1..Len(ap'.changes) :
                  LET change == ap'.changes[i]
                      before == group.tables[TableOf(change)]
                      after == group'.tables[TableOf(change)]
                  IN /\ (change.kind = "RemoveProperty")
                          => /\ valid_column(after, change.property.column_key)
                             /\ ColumnAt(after, change.property.column_key)
                                  = ColumnAt(before, change.property.column_key)
                             /\ ColumnAt(after, change.property.column_key).name
                                  = change.property.name
                             /\ ColumnAt(after, change.property.column_key).data # 0
                     /\ (change.kind = "ChangeTableType")
                          => (after.type = before.type /\ after.type = change.old_table_type)
                     /\ (change.kind = "ChangePrimaryKey") => after.pk = 0]_vars
    /\ [][(ap.pc = "after_callback" /\ ap'.pc = "returned" /\ ap.path = "migration")
            => \A t \in DOMAIN target : ClassReadsBack(group', target, t)]_vars

\* The migration function is entered with a column to remove, still there.
C32_Witness ==
    /\ ap.pc = "callback"
    /\ ap.path = "migration"
    /\ ap.calls = 0
    /\ \E i \in 1..Len(ap.changes) :
          /\ ap.changes[i].kind = "RemoveProperty"
          /\ valid_column(group.tables[TableOf(ap.changes[i])],
                          ap.changes[i].property.column_key)

C33_WitnessReturned ==
    /\ Returned
    /\ ap.path = "manual"
    /\ ap.calls > 0
    /\ group.writes = 1
    /\ Len(ap.changes) > 0

(***************************************************************************)
(*     C l a i m s   a b o u t   t h e   s a m e - v e r s i o n   p a t h *)
(***************************************************************************)
\* C34 as stated: apply_non_migration_changes throws SchemaMismatch exactly
\* when its changes hold a variant other than AddTable, AddInitialProperties,
\* AddIndex and RemoveIndex, and when it throws the tables of the group, their
\* columns and indexes are as they were before the call.
C34_NonMigrationThrowsBeforeTouching ==
    [][(ap.pc = "start" /\ ap'.pc # "start" /\ ap'.path = "same_version")
        => /\ (group'.err = "SchemaMismatchException")
                 <=> \E i \in 1..Len(ap'.changes) :
                        ap'.changes[i].kind \notin {"AddTable", "AddInitialProperties",
                                                    "AddIndex", "RemoveIndex"}
           /\ (ap'.pc = "threw") => group'.tables = group.tables]_vars

(***************************************************************************)
(*   C l a i m s   a b o u t   t h e   p o s t - m i g r a t i o n   s t e p *)
(***************************************************************************)
\* The changes and the initial schema that lines 950-952 or 956 hand to
\* apply_post_migration_changes in the state after the migration function.
PostChanges ==
    IF ap.migration_function THEN compare(schema_from_group(group), target)
    ELSE ap.changes

InitialSchema == IF ap.migration_function THEN ap.old_schema ELSE EmptySchema

\* The initial schema holds the property the change removes.
InInitialSchema(change) ==
    /\ change.object.name \in DOMAIN InitialSchema
    /\ Len(property_for_name(InitialSchema[change.object.name],
                             change.property.name)) # 0

FinishesMigration ==
    ap.pc = "after_callback" /\ ap'.pc # "after_callback" /\ ap.path = "migration"

\* C35 as stated: the post-migration step removes the column of a
\* RemoveProperty change only when initial_schema is non-empty and holds that
\* property; with a RemoveProperty change of any other kind among its changes
\* it fails with InvalidProperty and the column is still there.
C35_RemovesOnlyWithInitialSchema ==
    [][FinishesMigration
        => \A i \in 1..Len(PostChanges) :
              (PostChanges[i].kind = "RemoveProperty")
                 => IF DOMAIN InitialSchema # {} /\ InInitialSchema(PostChanges[i])
                    THEN TRUE
                    ELSE /\ ap'.pc = "threw"
                         /\ valid_column(group'.tables[TableOf(PostChanges[i])],
                                         PostChanges[i].property.column_key)]_vars

\* C35, as the code has it: the post-migration step fails with InvalidProperty
\* "Renamed property 'T.p' does not exist." and leaves the column where it is
\* when initial_schema is non-empty and does not hold the property of a
\* RemoveProperty change (the path with a migration function); when
\* initial_schema is empty (the path without one) or holds the property, a call
\* that returns has removed the column.
C35_FailsOnlyWithInitialSchemaLackingProperty ==
    [][FinishesMigration
        => LET removals == {i \in 1..Len(PostChanges) :
                               PostChanges[i].kind = "RemoveProperty"}
               lacking == {i \in removals :
                              DOMAIN InitialSchema # {} /\ ~InInitialSchema(PostChanges[i])}
               Column(i) == valid_column(group'.tables[TableOf(PostChanges[i])],
                                         PostChanges[i].property.column_key)
           IN IF lacking # {}
              THEN /\ ap'.pc = "threw"
                   /\ group'.err = "InvalidProperty: Renamed property does not exist."
                   /\ \A i \in lacking : Column(i)
              ELSE /\ group'.err # "InvalidProperty: Renamed property does not exist."
                   /\ (ap'.pc = "returned") => \A i \in removals : ~Column(i)]_vars

\* Without a migration function, so with an empty initial schema, the call
\* returned and the column of a RemoveProperty change is gone.
C35_Witness ==
    /\ Returned
    /\ ap.path = "migration"
    /\ ~ap.migration_function
    /\ \E i \in 1..Len(ap.changes) :
          /\ ap.changes[i].kind = "RemoveProperty"
          /\ ~valid_column(group.tables[TableOf(ap.changes[i])],
                           ap.changes[i].property.column_key)

\* With a migration function that renamed a column to a name the target lacks,
\* the call failed on the removal of that column.
C35_WitnessRenamed ==
    /\ ap.pc = "threw"
    /\ ap.path = "migration"
    /\ ap.migration_function
    /\ group.err = "InvalidProperty: Renamed property does not exist."

(***************************************************************************)
(*   C l a i m s   a b o u t   t h e   p r e - m i g r a t i o n   s t e p *)
(***************************************************************************)
\* C36: when the pre-migration step has run without an exception, the table of
\* every MakePropertyNullable, MakePropertyRequired and ChangePropertyType
\* change has exactly one column of the property's name. For
\* MakePropertyNullable it is nullable and holds the data the column held; for
\* MakePropertyRequired it is required and empty; for ChangePropertyType it has
\* the new type and is empty. The columns of the table that no change of the
\* list names are as they were.
C36_NullableKeepsRequiredAndTypeReplace ==
    [][(ap.pc = "start" /\ ap'.pc \in {"callback", "after_callback"}
          /\ ap'.path = "migration")
        => \A i \in 1..Len(ap'.changes) :
              LET change == ap'.changes[i]
                  before == group.tables[TableOf(change)]
                  after == group'.tables[TableOf(change)]
                  name == IF change.kind = "ChangePropertyType"
                          THEN change.new_property.name ELSE change.property.name
                  old_key == IF change.kind = "ChangePropertyType"
                             THEN change.old_property.column_key
                             ELSE change.property.column_key
                  column == after.cols[CHOOSE c \in ColumnsNamed(after, name) : TRUE]
                  named == {IF ap'.changes[j].kind = "ChangePropertyType"
                            THEN ap'.changes[j].new_property.name
                            ELSE ap'.changes[j].property.name :
                               j \in {k \in 1..Len(ap'.changes) :
                                        /\ TableOf(ap'.changes[k]) = TableOf(change)
                                        /\ ap'.changes[k].kind \notin
                                             {"AddTable", "RemoveTable", "ChangeTableType",
                                              "AddInitialProperties",
                                              "ChangePrimaryKey"}}}
              IN (change.kind \in {"MakePropertyNullable", "MakePropertyRequired",
                                   "ChangePropertyType"})
                    => /\ Cardinality(ColumnsNamed(after, name)) = 1
                       /\ ColumnAt(before, old_key).data # 0
                       /\ (change.kind = "MakePropertyNullable")
                            => (column.nullable
                                  /\ column.data = ColumnAt(before, old_key).data)
                       /\ (change.kind = "MakePropertyRequired")
                            => (~column.nullable /\ column.data = 0)
                       /\ (change.kind = "ChangePropertyType")
                            => (column.type = change.new_property.type /\ column.data = 0)
                       /\ \A c \in 1..Len(before.cols) :
                             (before.cols[c].name \notin named)
                                => \E d \in 1..Len(after.cols) :
                                      after.cols[d] = before.cols[c]]_vars

\* The pre-migration step made a property required: its column is empty.
C36_Witness ==
    /\ ap.pc = "after_callback"
    /\ ap.path = "migration"
    /\ \E i \in 1..Len(ap.changes) :
          /\ ap.changes[i].kind = "MakePropertyRequired"
          /\ \E c \in ColumnsNamed(group.tables[TableOf(ap.changes[i])],
                                   ap.changes[i].property.name) :
                group.tables[TableOf(ap.changes[i])].cols[c].data = 0

(***************************************************************************)
(*   T h e   a p p l i c a t o r s   o n   a   c a l l e r ' s   l i s t   *)
(***************************************************************************)
\* The change lists a caller may hand over for this file and target: what
\* compare reports, the same with a RemoveTable for every class of the file the
\* target does not have, and the same with an AddTable for every class of the
\* target whose table is in the file.
ChangeLists(g, target_schema) ==
    LET existing_schema == schema_from_group(g)
        changes == compare(existing_schema, target_schema)
        removals == Fold(LAMBDA acc, t :
                             IF t \in DOMAIN existing_schema /\ t \notin DOMAIN target_schema
                             THEN Append(acc, [kind |-> "RemoveTable",
                                               object |-> existing_schema[t]])
                             ELSE acc,
                         <<>>, SchemaOrder)
        additions == Fold(LAMBDA acc, t :
                              IF t \in DOMAIN existing_schema /\ t \in DOMAIN target_schema
                              THEN Append(acc, [kind |-> "AddTable",
                                                object |-> target_schema[t]])
                              ELSE acc,
                          <<>>, SchemaOrder)
    IN {changes, removals \o changes, changes \o additions}

TablesInit ==
    /\ \E disk \in Schemas : group = FileOf(disk, 1)
    /\ target \in Schemas
    /\ \E changes \in ChangeLists(group, target) :
          ap = [pc |-> "start", op |-> None, changes |-> changes]
    /\ rn = None
    /\ AsyncIdle
    /\ VerifyIdle

\* create_initial_tables on the caller's list.
TablesCreateInitial ==
    /\ ap.pc = "start"
    /\ group' = create_initial_tables(group, ap.changes)
    /\ ap' = [ap EXCEPT !.pc = "done", !.op = "create_initial_tables"]
    /\ UNCHANGED <<target, rn>>
    /\ UNCHANGED <<avars, vvars>>

\* apply_additive_changes on the caller's list.
TablesAdditive(update_indexes) ==
    /\ ap.pc = "start"
    /\ group' = apply_additive_changes(group, ap.changes, update_indexes)
    /\ ap' = [ap EXCEPT !.pc = "done", !.op = "apply_additive_changes"]
    /\ UNCHANGED <<target, rn>>
    /\ UNCHANGED <<avars, vvars>>

\* apply_non_migration_changes on the caller's list.
TablesNonMigration ==
    /\ ap.pc = "start"
    /\ group' = apply_non_migration_changes(group, ap.changes)
    /\ ap' = [ap EXCEPT !.pc = "done", !.op = "apply_non_migration_changes"]
    /\ UNCHANGED <<target, rn>>
    /\ UNCHANGED <<avars, vvars>>

\* apply_pre_migration_changes on the caller's list.
TablesPreMigration ==
    /\ ap.pc = "start"
    /\ group' = apply_pre_migration_changes(group, ap.changes)
    /\ ap' = [ap EXCEPT !.pc = "done", !.op = "apply_pre_migration_changes"]
    /\ UNCHANGED <<target, rn>>
    /\ UNCHANGED <<avars, vvars>>

\* apply_post_migration_changes on the caller's list, with the schema of the
\* file as initial schema or with none.
TablesPostMigration(with_initial_schema, did_reread_schema) ==
    /\ ap.pc = "start"
    /\ group' = apply_post_migration_changes(
                    group, ap.changes,
                    IF with_initial_schema THEN schema_from_group(group) ELSE EmptySchema,
                    did_reread_schema, FALSE)
    /\ ap' = [ap EXCEPT !.pc = "done", !.op = "apply_post_migration_changes"]
    /\ UNCHANGED <<target, rn>>
    /\ UNCHANGED <<avars, vvars>>

\* delete_data_for_object, as a migration function calls it.
TablesDeleteData(object_type) ==
    /\ ap.pc = "start"
    /\ group' = delete_data_for_object(group, object_type)
    /\ ap' = [ap EXCEPT !.pc = "done", !.op = "delete_data_for_object"]
    /\ UNCHANGED <<target, rn>>
    /\ UNCHANGED <<avars, vvars>>

TablesNext ==
    \/ TablesCreateInitial
    \/ \E update_indexes \in BOOLEAN : TablesAdditive(update_indexes)
    \/ TablesNonMigration
    \/ TablesPreMigration
    \/ \E with_initial_schema \in BOOLEAN, did_reread_schema \in BOOLEAN :
          TablesPostMigration(with_initial_schema, did_reread_schema)
    \/ \E object_type \in {"Cat", "Dog"} : TablesDeleteData(object_type)

SpecTables == TablesInit /\ [][TablesNext]_vars

(***************************************************************************)
(*              C l a i m s   a b o u t   t a b l e s   k e p t            *)
(***************************************************************************)
\* The changes of the list that are about the table n.
ChangesOf(changes, n) == SelectSeq(changes, LAMBDA c : TableOf(c) = n)

\* C38: whatever list the caller hands over, RemoveTable included, an
\* applicator keeps every table of the file, the metadata table among them; a
\* table that the list names in AddTable and RemoveTable entries only is left
\* exactly as it was, so AddTable for a table that exists changes nothing. A
\* step after which a table is gone is a call of delete_data_for_object, and
\* the table gone is the table of that class.
C38_OnlyDeleteDataRemovesTables ==
    [][/\ (ap'.op # "delete_data_for_object")
          => /\ DOMAIN group.tables \subseteq DOMAIN group'.tables
             /\ \A n \in DOMAIN group.tables :
                   (\A i \in 1..Len(ChangesOf(ap.changes, n)) :
                       ChangesOf(ap.changes, n)[i].kind \in {"AddTable", "RemoveTable"})
                      => group'.tables[n] = group.tables[n]
       /\ (ap'.op = "delete_data_for_object")
          => \E object_type \in {"Cat", "Dog"} :
                /\ group' = delete_data_for_object(group, object_type)
                /\ DOMAIN group.tables \ DOMAIN group'.tables
                      \subseteq {table_name_for_object_type(object_type)}
                /\ c_metadataTableName \in DOMAIN group'.tables]_vars

\* An applicator has run over a list that holds RemoveTable: the table is still
\* in the file, with its rows, and so is the metadata table.
C38_Witness ==
    /\ ap.pc = "done"
    /\ ap.op # "delete_data_for_object"
    /\ group.err = None
    /\ HasTable(group, c_metadataTableName)
    /\ \E i \in 1..Len(ap.changes) :
          /\ ap.changes[i].kind = "RemoveTable"
          /\ HasTable(group, TableOf(ap.changes[i]))
          /\ group.tables[TableOf(ap.changes[i])].cols # <<>>

\* An applicator has run over a list whose only entry about some table of the
\* file is an AddTable.
C38_WitnessExisting ==
    /\ ap.pc = "done"
    /\ ap.op \in {"create_initial_tables", "apply_additive_changes",
                  "apply_post_migration_changes"}
    /\ group.err = None
    /\ \E i \in 1..Len(ap.changes) :
          /\ ap.changes[i].kind = "AddTable"
          /\ group.tables[TableOf(ap.changes[i])].cols # <<>>
          /\ \A j \in 1..Len(ap.changes) :
                TableOf(ap.changes[j]) = TableOf(ap.changes[i]) => j = i

\* A call of delete_data_for_object has removed the table of the class.
C38_WitnessDeleted ==
    /\ ap.pc = "done"
    /\ ap.op = "delete_data_for_object"
    /\ ~HasTable(group, table_name_for_object_type("Dog"))
    /\ HasTable(group, c_metadataTableName)

====
